-------------------------- MODULE Enrollment_proofs --------------------------
(***************************************************************************)
(* Proofs about Enrollment, for every set of machines, tokens, ids, keys   *)
(* and runs and every bound.                                               *)
(***************************************************************************)
EXTENDS Enrollment, TLAPS

\* What is true of a run in each of its phases.
RunInv(q) ==
    /\ q.at # "free" => q.token \in Tokens /\ q.me.key \in Keys
    /\ q.at \in {"free", "sent", "insert"} => q.me.id = None
    /\ q.late => q.at = "sent" /\ token[q.token] = "used"
    /\ q.at \in {"mark", "reply", "save", "write"} =>
          /\ q.me.id # None
          /\ row[q.me.id] = [key |-> q.me.key, via |-> q.token, late |-> FALSE]
    /\ q.at \in {"reply", "save", "write"} => token[q.token] = "used"

\* What is true of an identity a machine holds.
HeldInv(me) ==
    \/ me = Nobody
    \/ /\ me.id # None /\ me.key \in Keys
       /\ row[me.id].key = me.key
       /\ row[me.id].via \in Tokens
       /\ token[row[me.id].via] = "used"

Inv ==
    /\ \A r \in Runs : RunInv(run[r])
    /\ \A m \in Machines : HeldInv(config[m]) /\ HeldInv(agent[m])
    /\ \A t \in Tokens : usedBy[t] # None => row[usedBy[t]].via = t
    /\ \A i \in Ids : ~row[i].late

\* Rows stay what they are, and a used token stays used.
Grows ==
    /\ \A i \in Ids : row[i] # NoRow => row'[i] = row[i]
    /\ \A t \in Tokens : token[t] = "used" => token'[t] = "used"

-----------------------------------------------------------------------------
\* Every state of the specification has its types: what the tables and files
\* hold are tokens, ids and keys of their kind.
THEOREM TypeCorrect == Spec => []TypeOK
<1>1. Init => TypeOK
  BY EnrollmentAssumption
  DEF Init, TypeOK, Rows, NoRow, AllRuns, FreeRun, Phases, Identities, Nobody
<1>2. TypeOK /\ [Next]_vars => TypeOK'
  <2> SUFFICES ASSUME TypeOK, [Next]_vars PROVE TypeOK'
    OBVIOUS
  <2> USE EnrollmentAssumption
  <2>a. FreeRun \in AllRuns /\ Nobody \in Identities
    BY DEF FreeRun, AllRuns, Nobody, Identities, Phases
  <2>1. ASSUME NEW t \in Tokens, CreateToken(t) PROVE TypeOK'
    BY <2>1 DEF TypeOK, CreateToken
  <2>2. ASSUME NEW r \in Runs, CheckToken(r) PROVE TypeOK'
    <3>1. [run[r] EXCEPT !.at = "insert"] \in AllRuns
      BY DEF TypeOK, AllRuns, Phases
    <3>2. QED
      BY <2>2, <2>a, <3>1 DEF TypeOK, CheckToken
  <2>3. ASSUME NEW r \in Runs, NEW i \in Ids, InsertDevice(r, i) PROVE TypeOK'
    <3>1. run' \in [Runs -> AllRuns]
      <4>1. PICK q \in AllRuns : q = run[r]
        BY DEF TypeOK
      <4>2. [key |-> q.me.key, id |-> i] \in Identities
        BY DEF AllRuns, Identities
      <4>3. [q EXCEPT !.at = "mark", !.me = [key |-> q.me.key, id |-> i]]
                \in AllRuns
        BY <4>2 DEF AllRuns, Phases
      <4>4. run' = [run EXCEPT ![r] = [q EXCEPT !.at = "mark",
                                    !.me = [key |-> q.me.key, id |-> i]]]
        BY <2>3, <4>1 DEF TypeOK, InsertDevice
      <4>5. QED
        BY <4>3, <4>4 DEF TypeOK
    <3>2. row' \in [Ids -> Rows]
      BY <2>3 DEF TypeOK, InsertDevice, AllRuns, Identities, Rows
    <3>3. QED
      BY <2>3, <3>1, <3>2 DEF TypeOK, InsertDevice
  <2>4. ASSUME NEW r \in Runs, MarkUsed(r) PROVE TypeOK'
    <3>1. run' \in [Runs -> AllRuns]
      BY <2>4 DEF TypeOK, MarkUsed, AllRuns, Phases
    <3>2. usedBy' \in [Tokens -> Ids \cup {None}]
      BY <2>4 DEF TypeOK, MarkUsed, AllRuns, Identities
    <3>3. QED
      BY <2>4, <3>1, <3>2 DEF TypeOK, MarkUsed
  <2>5. ASSUME NEW r \in Runs, NEW m \in Machines, NEW t \in Tokens,
               NEW k \in Keys, StartEnroll(m, t, k, r)
        PROVE  TypeOK'
    <3>1. run' \in [Runs -> AllRuns]
      BY <2>5 DEF TypeOK, StartEnroll, AllRuns, Phases, Identities, Nobody
    <3>2. faults' \in Nat
      BY <2>5 DEF TypeOK, StartEnroll, Fault
    <3>3. QED
      BY <2>5, <3>1, <3>2 DEF TypeOK, StartEnroll
  <2>6. ASSUME NEW r \in Runs, ReceiveIdentity(r) PROVE TypeOK'
    <3>1. [run[r] EXCEPT !.at = "save"] \in AllRuns
      BY DEF TypeOK, AllRuns, Phases
    <3>2. QED
      BY <2>6, <2>a, <3>1 DEF TypeOK, ReceiveIdentity
  <2>7. ASSUME NEW r \in Runs, TruncateConfig(r) PROVE TypeOK'
    <3>1. run' \in [Runs -> AllRuns]
      BY <2>7 DEF TypeOK, TruncateConfig, AllRuns, Phases
    <3>2. QED
      BY <2>7, <2>a, <3>1 DEF TypeOK, TruncateConfig
  <2>8. ASSUME NEW r \in Runs, WriteConfig(r) PROVE TypeOK'
    <3>1. run[r].me \in Identities
      BY DEF TypeOK, AllRuns
    <3>2. QED
      BY <2>8, <2>a, <3>1 DEF TypeOK, WriteConfig
  <2>9. ASSUME NEW r \in Runs, Drop(r) PROVE TypeOK'
    BY <2>9, <2>a DEF TypeOK, Drop, Fault
  <2>b. ASSUME NEW r \in Runs PROVE Orphaned(run[r]) \in AllRuns
    BY <2>a DEF TypeOK, Orphaned, AllRuns
  <2>10. ASSUME NEW r \in Runs, Interrupt(r) PROVE TypeOK'
    BY <2>10, <2>b DEF TypeOK, Interrupt, Fault
  <2>11. ASSUME NEW m \in Machines, StartAgent(m) PROVE TypeOK'
    BY <2>11 DEF TypeOK, StartAgent
  <2>12. ASSUME NEW m \in Machines, PowerCycle(m) PROVE TypeOK'
    <3>1. run' \in [Runs -> AllRuns]
      BY <2>12, <2>b DEF TypeOK, PowerCycle
    <3>2. QED
      BY <2>12, <2>a, <3>1 DEF TypeOK, PowerCycle, Fault
  <2>13. CASE UNCHANGED vars
    BY <2>13 DEF TypeOK, vars
  <2>14. QED
    BY <2>1, <2>2, <2>3, <2>4, <2>5, <2>6, <2>7, <2>8, <2>9, <2>10, <2>11,
       <2>12, <2>13 DEF Next
<1>3. QED
  BY <1>1, <1>2, PTL DEF Spec

-----------------------------------------------------------------------------
\* No statement of the handler rewrites a row of devices, and none makes a used
\* token usable again.
LEMMA NothingIsUndone == TypeOK /\ [Next]_vars => Grows
<1> SUFFICES ASSUME TypeOK, [Next]_vars PROVE Grows
  OBVIOUS
<1>1. ASSUME NEW r \in Runs, NEW i \in Ids, InsertDevice(r, i) PROVE Grows
  BY <1>1 DEF TypeOK, InsertDevice, Grows
<1>2. ASSUME NEW t \in Tokens, CreateToken(t) PROVE Grows
  BY <1>2 DEF TypeOK, CreateToken, Grows
<1>3. ASSUME NEW r \in Runs, MarkUsed(r) PROVE Grows
  BY <1>3 DEF TypeOK, MarkUsed, Grows
<1>4. CASE UNCHANGED <<row, token>>
  BY <1>4 DEF Grows
<1>5. QED
  BY <1>1, <1>2, <1>3, <1>4
  DEF Next, CheckToken, StartEnroll, ReceiveIdentity, TruncateConfig,
      WriteConfig, Drop, Interrupt, StartAgent, PowerCycle, vars

\* An identity that is good stays good: what it rests on is never undone.
LEMMA HeldStays ==
    ASSUME TypeOK, Grows, NEW me \in Identities, HeldInv(me)
    PROVE  HeldInv(me)'
<1>1. CASE me = Nobody
  BY <1>1 DEF HeldInv
<1>2. CASE me # Nobody
  <2>1. me.id \in Ids /\ row[me.id].via \in Tokens
    BY <1>2 DEF HeldInv, Identities
  <2>2. row[me.id] # NoRow
    BY <2>1, EnrollmentAssumption DEF NoRow
  <2>3. QED
    BY <1>2, <2>1, <2>2 DEF HeldInv, Grows
<1>3. QED
  BY <1>1, <1>2

\* So does what is true of a run that stays where it is.
LEMMA RunStays ==
    ASSUME TypeOK, Grows, NEW q \in AllRuns, RunInv(q)
    PROVE  RunInv(q)'
<1>1. CASE q.at \in {"mark", "reply", "save", "write"}
  <2>1. q.me.id \in Ids /\ q.token \in Tokens
    BY <1>1 DEF RunInv, AllRuns, Identities
  <2>2. row[q.me.id] # NoRow
    BY <1>1, <2>1, EnrollmentAssumption DEF RunInv, NoRow
  <2>3. QED
    BY <1>1, <2>1, <2>2 DEF RunInv, Grows
<1>2. CASE q.at \in {"free", "sent", "insert"}
  BY <1>2 DEF RunInv, Grows, AllRuns
<1>3. QED
  BY <1>1, <1>2 DEF AllRuns, Phases

\* A run that has its answer holds a good identity.
LEMMA AnswerIsHeld ==
    ASSUME TypeOK, NEW q \in AllRuns, RunInv(q), q.at \in {"reply", "save", "write"}
    PROVE  HeldInv(q.me)
BY DEF RunInv, HeldInv

\* The step of the invariant: each action changes one run, and a file or an
\* agent only to what that run or the file holds.
LEMMA InvStep == TypeOK /\ TypeOK' /\ Inv /\ [Next]_vars => Inv'
<1> SUFFICES ASSUME TypeOK, TypeOK', Inv, [Next]_vars PROVE Inv'
  OBVIOUS
<1> USE EnrollmentAssumption
<1>g. Grows
  BY NothingIsUndone
<1>h. ASSUME NEW me \in Identities, HeldInv(me) PROVE HeldInv(me)'
  BY <1>g, <1>h, HeldStays
<1>q. ASSUME NEW q \in AllRuns, RunInv(q) PROVE RunInv(q)'
  BY <1>g, <1>q, RunStays
<1>1. \A s \in Runs : RunInv(run[s])'
  <2> SUFFICES ASSUME NEW s \in Runs PROVE RunInv(run[s])'
    OBVIOUS
  <2> DEFINE q == run[s]
             p == run'[s]
  <2>1. q \in AllRuns /\ RunInv(q)
    BY DEF Inv, TypeOK
  <2>2. PICK x \in AllRuns : x = p
    BY DEF TypeOK
  <2>3. SUFFICES RunInv(x)'
    BY <2>2 DEF RunInv
  <2>4. CASE p = q
    BY <2>1, <2>2, <2>4, <1>q
  <2>5. CASE p = FreeRun
    <3>1. RunInv(x)
      BY <2>2, <2>5 DEF RunInv, FreeRun, Nobody
    <3>2. QED
      BY <3>1, <1>q
  <2>a. CASE p = [q EXCEPT !.by = None]
    <3>1. x.at = q.at /\ x.token = q.token /\ x.late = q.late /\ x.me = q.me
      BY <2>1, <2>2, <2>a DEF AllRuns
    <3>2. RunInv(x)
      BY <2>1, <3>1 DEF RunInv
    <3>3. QED
      BY <3>2, <1>q
  <2>6. CASE CheckToken(s) /\ p = [q EXCEPT !.at = "insert"]
    <3>1. q.at = "sent" /\ token[q.token] = "unused"
      BY <2>6 DEF CheckToken, FreeRun, TypeOK, AllRuns
    <3>2. RunInv(x)
      BY <2>1, <2>2, <2>6, <3>1 DEF RunInv, AllRuns
    <3>3. QED
      BY <3>2, <1>q
  <2>7. ASSUME NEW i \in Ids, InsertDevice(s, i) PROVE RunInv(x)'
    <3>1. /\ x.at = "mark" /\ x.token = q.token /\ x.late = q.late
          /\ x.me = [key |-> q.me.key, id |-> i]
      BY <2>1, <2>2, <2>7 DEF InsertDevice, TypeOK, AllRuns
    <3>2. row'[i] = [key |-> q.me.key, via |-> q.token, late |-> FALSE]
      BY <2>1, <2>7 DEF InsertDevice, TypeOK, RunInv, AllRuns
    <3>3. QED
      BY <2>1, <2>7, <3>1, <3>2 DEF InsertDevice, RunInv
  <2>8. CASE MarkUsed(s)
    BY <2>1, <2>2, <2>8 DEF MarkUsed, TypeOK, RunInv, AllRuns, Identities
  <2>9. ASSUME NEW m \in Machines, NEW t \in Tokens, NEW k \in Keys,
               StartEnroll(m, t, k, s)
        PROVE  RunInv(x)'
    BY <2>2, <2>9 DEF StartEnroll, TypeOK, RunInv, AllRuns, Nobody
  <2>10. CASE ReceiveIdentity(s) /\ p = [q EXCEPT !.at = "save"]
    <3>1. x.at = "save" /\ x.token = q.token /\ x.late = q.late /\ x.me = q.me
      BY <2>1, <2>2, <2>10 DEF AllRuns
    <3>2. q.at = "reply"
      BY <2>10 DEF ReceiveIdentity
    <3>3. RunInv(x)
      BY <2>1, <3>1, <3>2 DEF RunInv
    <3>4. QED
      BY <3>3, <1>q
  <2>11. CASE TruncateConfig(s)
    <3>1. RunInv(x)
      BY <2>1, <2>2, <2>11 DEF TruncateConfig, RunInv, AllRuns, TypeOK
    <3>2. QED
      BY <3>1, <1>q
  <2>12. \/ p \in {q, FreeRun, [q EXCEPT !.by = None]}
         \/ CheckToken(s) /\ p = [q EXCEPT !.at = "insert"]
         \/ \E i \in Ids : InsertDevice(s, i)
         \/ MarkUsed(s)
         \/ \E m \in Machines, t \in Tokens, k \in Keys : StartEnroll(m, t, k, s)
         \/ ReceiveIdentity(s) /\ p = [q EXCEPT !.at = "save"]
         \/ TruncateConfig(s)
    <3>1. CASE \E r \in Runs : CheckToken(r)
      <4>1. PICK r \in Runs : CheckToken(r)
        BY <3>1
      <4>2. s # r => p = q
        BY <4>1 DEF CheckToken, TypeOK
      <4>3. s = r => p = FreeRun \/ p = [q EXCEPT !.at = "insert"]
        BY <4>1 DEF CheckToken, TypeOK
      <4>4. QED
        BY <4>1, <4>2, <4>3
    <3>2. CASE \E r \in Runs, i \in Ids : InsertDevice(r, i)
      BY <3>2 DEF InsertDevice, TypeOK
    <3>3. CASE \E r \in Runs : MarkUsed(r)
      BY <3>3 DEF MarkUsed, TypeOK
    <3>4. CASE \E r \in Runs, m \in Machines, t \in Tokens, k \in Keys :
                  StartEnroll(m, t, k, r)
      <4>1. PICK r \in Runs, m \in Machines, t \in Tokens, k \in Keys :
                    StartEnroll(m, t, k, r)
        BY <3>4
      <4>2. s # r => p = q
        BY <4>1 DEF StartEnroll, TypeOK
      <4>3. QED
        BY <4>1, <4>2
    <3>5. CASE \E r \in Runs : ReceiveIdentity(r)
      BY <3>5 DEF ReceiveIdentity, TypeOK
    <3>6. CASE \E r \in Runs : TruncateConfig(r) \/ WriteConfig(r) \/ Drop(r)
      BY <3>6 DEF TruncateConfig, WriteConfig, Drop, TypeOK
    <3>7. CASE \E r \in Runs : Interrupt(r)
      BY <3>7 DEF Interrupt, Orphaned, TypeOK
    <3>8. CASE \E m \in Machines : PowerCycle(m)
      BY <3>8 DEF PowerCycle, Orphaned, TypeOK
    <3>9. CASE UNCHANGED run
      BY <3>9
    <3>10. QED
      BY <3>1, <3>2, <3>3, <3>4, <3>5, <3>6, <3>7, <3>8, <3>9
      DEF Next, CreateToken, StartAgent, vars
  <2>13. QED
    BY <2>4, <2>5, <2>a, <2>6, <2>7, <2>8, <2>9, <2>10, <2>11, <2>12
<1>2. \A m \in Machines : HeldInv(config[m])' /\ HeldInv(agent[m])'
  <2> SUFFICES ASSUME NEW m \in Machines
               PROVE  HeldInv(config[m])' /\ HeldInv(agent[m])'
    OBVIOUS
  <2>1. PICK x \in Identities : x = config'[m]
    BY DEF TypeOK
  <2>2. PICK y \in Identities : y = agent'[m]
    BY DEF TypeOK
  <2>3. SUFFICES HeldInv(x) /\ HeldInv(y)
    BY <2>1, <2>2, <1>h DEF HeldInv
  <2>4. HeldInv(Nobody) /\ HeldInv(config[m]) /\ HeldInv(agent[m])
    BY DEF HeldInv, Inv
  <2>5. ASSUME NEW r \in Runs, WriteConfig(r) PROVE HeldInv(run[r].me)
    BY <2>5, AnswerIsHeld DEF Inv, TypeOK, WriteConfig
  <2>6. config'[m] \in {config[m], Nobody}
        \/ \E r \in Runs : WriteConfig(r) /\ config'[m] = run[r].me
    <3>1. ASSUME NEW r \in Runs, TruncateConfig(r) \/ WriteConfig(r)
          PROVE  \/ config'[m] \in {config[m], Nobody}
                 \/ WriteConfig(r) /\ config'[m] = run[r].me
      BY <3>1 DEF TruncateConfig, WriteConfig, TypeOK
    <3>2. QED
      BY <3>1
      DEF Next, CreateToken, CheckToken, InsertDevice, MarkUsed, StartEnroll,
          ReceiveIdentity, StartAgent, Drop, Interrupt, PowerCycle, vars
  <2>7. agent'[m] \in {agent[m], config[m], Nobody}
    <3>1. ASSUME NEW n \in Machines, StartAgent(n) \/ PowerCycle(n)
          PROVE  agent'[m] \in {agent[m], config[m], Nobody}
      BY <3>1 DEF StartAgent, PowerCycle, TypeOK
    <3>2. QED
      BY <3>1
      DEF Next, CreateToken, CheckToken, InsertDevice, MarkUsed, StartEnroll,
          ReceiveIdentity, TruncateConfig, WriteConfig, Drop, Interrupt, vars
  <2>8. QED
    BY <2>1, <2>2, <2>4, <2>5, <2>6, <2>7
<1>3. \A t \in Tokens : usedBy'[t] # None => row'[usedBy'[t]].via = t
  <2> SUFFICES ASSUME NEW t \in Tokens, usedBy'[t] # None
               PROVE  row'[usedBy'[t]].via = t
    OBVIOUS
  <2>1. ASSUME NEW i \in Ids, row[i].via = t PROVE row'[i].via = t
    <3>1. row[i] # NoRow
      BY <2>1 DEF NoRow
    <3>2. QED
      BY <2>1, <3>1, <1>g DEF Grows
  <2>2. ASSUME NEW r \in Runs, MarkUsed(r), run[r].token = t
        PROVE  usedBy'[t] \in Ids /\ row[usedBy'[t]].via = t
    <3>1. run[r] \in AllRuns /\ RunInv(run[r]) /\ run[r].at = "mark"
      BY <2>2 DEF Inv, TypeOK, MarkUsed
    <3>2. usedBy'[t] = run[r].me.id
      BY <2>2 DEF MarkUsed, TypeOK
    <3>3. QED
      BY <2>2, <3>1, <3>2 DEF RunInv, AllRuns, Identities
  <2>3. usedBy'[t] = usedBy[t] \/ \E r \in Runs : MarkUsed(r) /\ run[r].token = t
    BY DEF Next, CreateToken, CheckToken, InsertDevice, MarkUsed, StartEnroll,
        ReceiveIdentity, TruncateConfig, WriteConfig, StartAgent, Drop,
        Interrupt, PowerCycle, TypeOK, vars
  <2>4. usedBy'[t] = usedBy[t] => usedBy[t] \in Ids /\ row[usedBy[t]].via = t
    BY DEF Inv, TypeOK
  <2>5. QED
    BY <2>1, <2>2, <2>3, <2>4
<1>4. \A i \in Ids : ~row'[i].late
  <2>1. ASSUME NEW r \in Runs, NEW i \in Ids, InsertDevice(r, i)
        PROVE  \A j \in Ids : ~row'[j].late
    <3>1. ~run[r].late
      BY <2>1 DEF Inv, RunInv, InsertDevice
    <3>2. QED
      BY <2>1, <3>1 DEF InsertDevice, TypeOK, Inv
  <2>2. CASE UNCHANGED row
    BY <2>2 DEF Inv
  <2>3. QED
    BY <2>1, <2>2
    DEF Next, CreateToken, CheckToken, MarkUsed, StartEnroll, ReceiveIdentity,
        TruncateConfig, WriteConfig, StartAgent, Drop, Interrupt, PowerCycle,
        vars
<1>5. QED
  BY <1>1, <1>2, <1>3, <1>4 DEF Inv

\* The invariant holds in every state.
LEMMA Invariant == Spec => [](TypeOK /\ Inv)
<1>1. Init => Inv
  BY DEF Init, Inv, RunInv, HeldInv, FreeRun, Nobody, NoRow
<1>2. QED
  BY <1>1, InvStep, TypeCorrect, PTL DEF Spec

-----------------------------------------------------------------------------
\* The server accepts the identity of every machine, for good, however its
\* enrollments were interrupted, repeated or lost.
THEOREM MachinesAreKnown == Spec => []IdentitiesAreKnown
<1>1. TypeOK /\ Inv => IdentitiesAreKnown
  BY EnrollmentAssumption
  DEF Inv, HeldInv, IdentitiesAreKnown, Known, KeyMatches, NoRow
<1>2. QED
  BY <1>1, Invariant, PTL

\* No machine holds an identity whose token could enroll another one later.
THEOREM IdentitiesArePaid == Spec => []IdentityIsPaid
<1>1. TypeOK /\ Inv => IdentityIsPaid
  BY DEF Inv, HeldInv, IdentityIsPaid, Nobody
<1>2. QED
  BY <1>1, Invariant, PTL

\* The table of tokens never names a device that is not the token's.
THEOREM TokensNameTheirDevice == Spec => []UsedByItsDevice
<1>1. TypeOK /\ Inv => UsedByItsDevice
  BY DEF Inv, UsedByItsDevice
<1>2. QED
  BY <1>1, Invariant, PTL

\* What one-time use amounts to in this code: no request sent after the use of
\* its token ever creates a device.
THEOREM LateRequestsEnrollNothing == Spec => []LateIsRefused
<1>1. TypeOK /\ Inv => LateIsRefused
  BY DEF Inv, LateIsRefused
<1>2. QED
  BY <1>1, Invariant, PTL

-----------------------------------------------------------------------------
(***************************************************************************)
(* Two machines never pass for one device.  An id is held by one run from  *)
(* its INSERT on, then by one machine; it goes from one to the other in    *)
(* WriteConfig, and the INSERT never takes one that is held.               *)
(***************************************************************************)
Apart ==
    /\ \A r, s \in Runs :
          run[r].me.id # None /\ run[r].me.id = run[s].me.id => r = s
    /\ \A r \in Runs, m \in Machines :
          run[r].me.id # None => run[r].me.id \notin {config[m].id, agent[m].id}
    /\ DistinctDevices

\* A step that gives nobody an id it did not have.
NobodyGains ==
    /\ \A r \in Runs : run'[r].me.id \in {None, run[r].me.id}
    /\ \A m \in Machines : /\ config'[m].id \in {None, config[m].id}
                           /\ agent'[m].id \in {None, config[m].id, agent[m].id}

\* Such a step keeps identities apart.
LEMMA ApartStays == Apart /\ NobodyGains => Apart'
<1> SUFFICES ASSUME Apart, NobodyGains PROVE Apart'
  OBVIOUS
<1>1. \A r, s \in Runs :
         run'[r].me.id # None /\ run'[r].me.id = run'[s].me.id => r = s
  BY DEF Apart, NobodyGains
<1>2. \A r \in Runs, m \in Machines :
         run'[r].me.id # None => run'[r].me.id \notin {config'[m].id, agent'[m].id}
  BY DEF Apart, NobodyGains
<1>3. DistinctDevices'
  <2> SUFFICES ASSUME NEW m \in Machines, NEW n \in Machines,
                      NEW a \in {config'[m], agent'[m]},
                      NEW b \in {config'[n], agent'[n]},
                      a.id # None, a.id = b.id
               PROVE  m = n
    BY DEF DistinctDevices
  <2>1. a.id \in {config[m].id, agent[m].id} /\ b.id \in {config[n].id, agent[n].id}
    BY DEF NobodyGains
  <2>2. QED
    BY <2>1 DEF Apart, DistinctDevices
<1>4. QED
  BY <1>1, <1>2, <1>3 DEF Apart

\* Only the INSERT and WriteConfig give an id to anybody.
LEMMA Gains ==
    ASSUME TypeOK, [Next]_vars,
           \A r \in Runs, i \in Ids : ~InsertDevice(r, i),
           \A r \in Runs : ~WriteConfig(r)
    PROVE  NobodyGains
<1>1. \A r \in Runs : run'[r].me.id \in {None, run[r].me.id}
  <2>1. ASSUME NEW r \in Runs, CheckToken(r) \/ ReceiveIdentity(r) \/ Drop(r)
        PROVE  \A s \in Runs : run'[s].me.id \in {None, run[s].me.id}
    BY <2>1 DEF CheckToken, ReceiveIdentity, Drop, FreeRun, Nobody, TypeOK, AllRuns
  <2>2. ASSUME NEW r \in Runs, MarkUsed(r) \/ TruncateConfig(r)
        PROVE  \A s \in Runs : run'[s].me.id \in {None, run[s].me.id}
    BY <2>2 DEF MarkUsed, TruncateConfig, TypeOK, AllRuns
  <2>3. ASSUME NEW r \in Runs, NEW m \in Machines, NEW t \in Tokens,
               NEW k \in Keys, StartEnroll(m, t, k, r)
        PROVE  \A s \in Runs : run'[s].me.id \in {None, run[s].me.id}
    BY <2>3 DEF StartEnroll, Nobody, TypeOK
  <2>4. ASSUME NEW r \in Runs
        PROVE  Orphaned(run[r]).me.id \in {None, run[r].me.id}
    BY DEF Orphaned, FreeRun, Nobody, TypeOK, AllRuns
  <2>5. ASSUME NEW r \in Runs, Interrupt(r)
        PROVE  \A s \in Runs : run'[s].me.id \in {None, run[s].me.id}
    BY <2>4, <2>5 DEF Interrupt, TypeOK
  <2>6. ASSUME NEW m \in Machines, PowerCycle(m)
        PROVE  \A s \in Runs : run'[s].me.id \in {None, run[s].me.id}
    BY <2>4, <2>6 DEF PowerCycle
  <2>7. CASE UNCHANGED run
    BY <2>7
  <2>8. QED
    BY <2>1, <2>2, <2>3, <2>5, <2>6, <2>7
    DEF Next, CreateToken, StartAgent, vars
<1>2. \A m \in Machines : /\ config'[m].id \in {None, config[m].id}
                          /\ agent'[m].id \in {None, config[m].id, agent[m].id}
  <2>1. ASSUME NEW r \in Runs, TruncateConfig(r)
        PROVE  \A m \in Machines : config'[m].id \in {None, config[m].id}
    BY <2>1 DEF TruncateConfig, Nobody, TypeOK
  <2>2. ASSUME NEW n \in Machines, StartAgent(n) \/ PowerCycle(n)
        PROVE  \A m \in Machines :
                  agent'[m].id \in {None, config[m].id, agent[m].id}
    BY <2>2 DEF StartAgent, PowerCycle, Nobody, TypeOK
  <2>3. QED
    BY <2>1, <2>2
    DEF Next, CreateToken, CheckToken, MarkUsed, StartEnroll, ReceiveIdentity,
        TruncateConfig, Drop, Interrupt, StartAgent, PowerCycle, vars
<1>3. QED
  BY <1>1, <1>2 DEF NobodyGains

\* An id that is held has a row.
LEMMA HeldHasRow ==
    ASSUME TypeOK, Inv, NEW i \in Ids, row[i] = NoRow
    PROVE  /\ \A r \in Runs : run[r].me.id # i
           /\ \A m \in Machines : config[m].id # i /\ agent[m].id # i
<1> USE EnrollmentAssumption
<1>1. ASSUME NEW r \in Runs, run[r].me.id = i PROVE FALSE
  <2>1. run[r] \in AllRuns /\ RunInv(run[r])
    BY DEF TypeOK, Inv
  <2>2. QED
    BY <1>1, <2>1 DEF RunInv, NoRow, AllRuns, Phases
<1>2. ASSUME NEW me, HeldInv(me), me.id = i PROVE FALSE
  BY <1>2 DEF HeldInv, NoRow, Nobody
<1>3. QED
  BY <1>1, <1>2 DEF Inv

\* Identities stay apart: the two steps that give an id are dealt with here.
LEMMA ApartStep == TypeOK /\ Inv /\ Apart /\ [Next]_vars => Apart'
<1> SUFFICES ASSUME TypeOK, Inv, Apart, [Next]_vars PROVE Apart'
  OBVIOUS
<1>1. ASSUME NEW r \in Runs, NEW i \in Ids, InsertDevice(r, i) PROVE Apart'
  <2>1. /\ \A s \in Runs : run[s].me.id # i
        /\ \A m \in Machines : config[m].id # i /\ agent[m].id # i
    BY <1>1, HeldHasRow DEF InsertDevice
  <2>2. /\ run'[r].me.id = i
        /\ \A s \in Runs : s # r => run'[s] = run[s]
        /\ config' = config /\ agent' = agent
    BY <1>1 DEF InsertDevice, TypeOK, AllRuns
  <2>3. QED
    BY <2>1, <2>2 DEF Apart, DistinctDevices
<1>2. ASSUME NEW r \in Runs, WriteConfig(r) PROVE Apart'
  <2>1. /\ run'[r].me.id = None
        /\ \A s \in Runs : s # r => run'[s] = run[s]
        /\ agent' = agent
        /\ \A m \in Machines : IF m = run[r].by
                               THEN config'[m] = run[r].me
                               ELSE config'[m] = config[m]
    BY <1>2 DEF WriteConfig, FreeRun, Nobody, TypeOK
  <2>2. \A q, s \in Runs :
           run'[q].me.id # None /\ run'[q].me.id = run'[s].me.id => q = s
    BY <2>1 DEF Apart
  <2>3. \A s \in Runs, m \in Machines :
           run'[s].me.id # None => run'[s].me.id \notin {config'[m].id, agent'[m].id}
    BY <2>1 DEF Apart
  <2>4. DistinctDevices'
    <3> SUFFICES ASSUME NEW m \in Machines, NEW n \in Machines,
                        NEW a \in {config'[m], agent'[m]},
                        NEW b \in {config'[n], agent'[n]},
                        a.id # None, a.id = b.id
                 PROVE  m = n
      BY DEF DistinctDevices
    <3>1. /\ a \in {config[m], agent[m]} \/ (m = run[r].by /\ a = run[r].me)
          /\ b \in {config[n], agent[n]} \/ (n = run[r].by /\ b = run[r].me)
      BY <2>1
    <3>2. QED
      BY <3>1 DEF Apart, DistinctDevices
  <2>5. QED
    BY <2>2, <2>3, <2>4 DEF Apart
<1>3. QED
  BY <1>1, <1>2, Gains, ApartStays

\* Whatever runs are repeated, interrupted or lost, no two machines ever have
\* the id of one device: the server's fresh id reaches one machine.
THEOREM DevicesAreDistinct == Spec => []DistinctDevices
<1>1. Init => Apart
  BY DEF Init, Apart, DistinctDevices, FreeRun, Nobody
<1>2. TypeOK /\ Inv /\ Apart /\ [Next]_vars => Apart'
  BY ApartStep
<1>3. Spec => []Apart
  BY <1>1, <1>2, Invariant, PTL DEF Spec
<1>4. QED
  BY <1>3, PTL DEF Apart

-----------------------------------------------------------------------------
(***************************************************************************)
(* Enrollment implements DeviceIdentities.  What is left to show, besides  *)
(* that rows stay and ids are held once, is that a key is used once: a run *)
(* makes up its key, and its INSERT is the only one that stores it.        *)
(***************************************************************************)
KeysApart ==
    /\ \A r, s \in Runs :
          run[r].me.key # None /\ run[r].me.key = run[s].me.key => r = s
    /\ \A r \in Runs : run[r].at \in {"sent", "insert"} =>
          \A i \in Ids : row[i].key # run[r].me.key

\* A step that starts no run and inserts no row: runs keep their keys and do not
\* go back.
NoNewKey ==
    /\ row' = row
    /\ \A r \in Runs :
          \/ run'[r] = FreeRun
          \/ /\ run'[r].me.key = run[r].me.key
             /\ run'[r].at \in {"sent", "insert"} => run[r].at \in {"sent", "insert"}

\* Such a step keeps the keys apart.
LEMMA KeysStayApart == TypeOK /\ KeysApart /\ NoNewKey => KeysApart'
<1> SUFFICES ASSUME TypeOK, KeysApart, NoNewKey PROVE KeysApart'
  OBVIOUS
<1>1. \A r \in Runs : run'[r].me.key \in {None, run[r].me.key}
  BY DEF NoNewKey, FreeRun, Nobody
<1>2. \A r \in Runs : run'[r].at \in {"sent", "insert"} =>
          run'[r].me.key = run[r].me.key /\ run[r].at \in {"sent", "insert"}
  BY DEF NoNewKey, FreeRun
<1>3. QED
  BY <1>1, <1>2 DEF KeysApart, NoNewKey

\* Only the INSERT and the start of a run bring a key anywhere.
LEMMA NewKeys ==
    ASSUME TypeOK, [Next]_vars,
           \A r \in Runs, i \in Ids : ~InsertDevice(r, i),
           \A r \in Runs, m \in Machines, t \in Tokens, k \in Keys :
              ~StartEnroll(m, t, k, r)
    PROVE  NoNewKey
<1>1. ASSUME NEW r \in Runs, CheckToken(r) \/ ReceiveIdentity(r) \/ Drop(r)
      PROVE  NoNewKey
  BY <1>1 DEF CheckToken, ReceiveIdentity, Drop, NoNewKey, TypeOK, AllRuns
<1>2. ASSUME NEW r \in Runs, MarkUsed(r) \/ TruncateConfig(r) \/ WriteConfig(r)
      PROVE  NoNewKey
  BY <1>2 DEF MarkUsed, TruncateConfig, WriteConfig, NoNewKey, TypeOK, AllRuns
<1>3. ASSUME NEW r \in Runs
      PROVE  \/ Orphaned(run[r]) = FreeRun
             \/ /\ Orphaned(run[r]).me.key = run[r].me.key
                /\ Orphaned(run[r]).at = run[r].at
  BY DEF Orphaned, TypeOK, AllRuns
<1>4. ASSUME NEW r \in Runs, Interrupt(r) PROVE NoNewKey
  BY <1>3, <1>4 DEF Interrupt, NoNewKey, TypeOK
<1>5. ASSUME NEW m \in Machines, PowerCycle(m) PROVE NoNewKey
  BY <1>3, <1>5 DEF PowerCycle, NoNewKey
<1>6. CASE UNCHANGED <<row, run>>
  BY <1>6 DEF NoNewKey
<1>7. QED
  BY <1>1, <1>2, <1>4, <1>5, <1>6 DEF Next, CreateToken, StartAgent, vars

\* Keys stay apart: a started run has a key of its own, and the row of an INSERT
\* has that of its run.
LEMMA KeysApartStep == TypeOK /\ Inv /\ KeysApart /\ [Next]_vars => KeysApart'
<1> SUFFICES ASSUME TypeOK, Inv, KeysApart, [Next]_vars PROVE KeysApart'
  OBVIOUS
<1>1. ASSUME NEW r \in Runs, NEW i \in Ids, InsertDevice(r, i) PROVE KeysApart'
  <2>1. /\ run'[r].me.key = run[r].me.key /\ run'[r].at = "mark"
        /\ \A s \in Runs : s # r => run'[s] = run[s]
        /\ row'[i].key = run[r].me.key
        /\ \A j \in Ids : j # i => row'[j] = row[j]
    BY <1>1 DEF InsertDevice, TypeOK, AllRuns
  <2>2. \A s \in Runs : run'[s].me.key = run[s].me.key
    BY <2>1
  <2>3. run[r].me.key # None
    <3>1. RunInv(run[r]) /\ run[r].at = "insert"
      BY <1>1 DEF Inv, InsertDevice
    <3>2. QED
      BY <3>1, EnrollmentAssumption DEF RunInv
  <2>4. QED
    BY <2>1, <2>2, <2>3 DEF KeysApart
<1>2. ASSUME NEW r \in Runs, NEW m \in Machines, NEW t \in Tokens, NEW k \in Keys,
             StartEnroll(m, t, k, r)
      PROVE  KeysApart'
  <2>1. /\ run'[r].me.key = k
        /\ \A s \in Runs : s # r => run'[s] = run[s]
        /\ row' = row
    BY <1>2 DEF StartEnroll, TypeOK, Nobody
  <2>2. /\ \A s \in Runs : run[s].me.key # k
        /\ \A i \in Ids : row[i].key # k
    BY <1>2 DEF StartEnroll, KeysInUse
  <2>3. QED
    BY <2>1, <2>2 DEF KeysApart
<1>3. QED
  BY <1>1, <1>2, NewKeys, KeysStayApart

\* No two devices, runs or requests ever share a key they did not hand on.
LEMMA KeysInvariant == Spec => []KeysApart
<1>1. Init => KeysApart
  BY DEF Init, KeysApart, FreeRun, Nobody
<1>2. QED
  BY <1>1, KeysApartStep, Invariant, PTL DEF Spec

\* Ids are held apart in every state, which DevicesAreDistinct rests on.
LEMMA ApartInvariant == Spec => []Apart
<1>1. Init => Apart
  BY DEF Init, Apart, DistinctDevices, FreeRun, Nobody
<1>2. QED
  BY <1>1, ApartStep, Invariant, PTL DEF Spec

-----------------------------------------------------------------------------
\* The mapped variables, by name.
Identified == [i \in Ids |-> Issued(i)]
Spent      == {t \in Tokens : token[t] = "used"}
Transit    == {run[r].me.id : r \in Runs} \ {None}
Held       == [m \in Machines |-> {config[m].id, agent[m].id} \ {None}]

\* The INSERT issues an identity.
LEMMA IssueSimulation ==
    ASSUME TypeOK, Inv, KeysApart, NEW r \in Runs, NEW i \in Ids, InsertDevice(r, i)
    PROVE  Identity!Next
<1> USE EnrollmentAssumption
<1>1. PICK k \in Keys, t \in Tokens :
              k = run[r].me.key /\ t = run[r].token /\ run[r].me.id = None
  BY DEF Inv, RunInv, InsertDevice
<1>2. row[i] = NoRow /\ row' = [row EXCEPT ![i] = [key |-> k, via |-> t,
                                                    late |-> run[r].late]]
  BY <1>1 DEF InsertDevice
<1>3. [key |-> k, via |-> t, late |-> run[r].late] # NoRow
  BY <1>1 DEF NoRow
<1>4. Identified' = [Identified EXCEPT ![i] = [key |-> k, via |-> t]]
  BY <1>2, <1>3 DEF Identified, Issued, TypeOK
<1>5. Identified[i] = None
  BY <1>2 DEF Identified, Issued
<1>6. \A j \in Ids : Identified[j] # None => Identified[j].key # k
  BY <1>1 DEF Identified, Issued, KeysApart, InsertDevice
<1>7. Transit' = Transit \cup {i}
  <2>1. /\ run'[r].me.id = i /\ \A s \in Runs : s # r => run'[s] = run[s]
    BY DEF InsertDevice, TypeOK, AllRuns
  <2>2. i # None
    OBVIOUS
  <2>3. \A x : x \in Transit' <=> x \in Transit \/ x = i
    BY <1>1, <2>1, <2>2 DEF Transit
  <2>4. QED
    BY <2>3
<1>8. Spent' = Spent /\ Held' = Held
  BY DEF InsertDevice, Spent, Held
<1>9. Identity!Issue(i, k, t)
  BY <1>4, <1>5, <1>6, <1>7, <1>8
  DEF Identity!Issue, Identified, Spent, Transit, Held
<1>10. QED
  BY <1>1, <1>9 DEF Identity!Next

\* The UPDATE spends a token for an identity on its way.
LEMMA SpendSimulation ==
    ASSUME TypeOK, Inv, NEW r \in Runs, MarkUsed(r)
    PROVE  Identity!Next
<1> USE EnrollmentAssumption
<1>1. PICK t \in Tokens, i \in Ids :
      /\ t = run[r].token /\ i = run[r].me.id
      /\ row[i] = [key |-> run[r].me.key, via |-> t, late |-> FALSE]
      /\ run[r].me.key \in Keys
  BY DEF Inv, RunInv, MarkUsed, TypeOK, AllRuns, Identities
<1>2. row[i] # NoRow /\ i \in Transit
  BY <1>1 DEF NoRow, Transit
<1>3. Identified[i].via = t
  BY <1>1, <1>2 DEF Identified, Issued
<1>4. Spent' = Spent \cup {t}
  <2>1. \A x \in Tokens : token'[x] = IF x = t THEN "used" ELSE token[x]
    BY <1>1 DEF MarkUsed, TypeOK
  <2>2. QED
    BY <1>1, <2>1 DEF Spent
<1>5. Transit' = Transit
  <2>1. \A s \in Runs : run'[s].me = run[s].me
    BY DEF MarkUsed, TypeOK, AllRuns
  <2>2. \A x : x \in Transit' <=> x \in Transit
    BY <2>1 DEF Transit
  <2>3. QED
    BY <2>2
<1>6. Identified' = Identified /\ Held' = Held
  BY DEF MarkUsed, Identified, Issued, Held
<1>7. Identity!Spend(t)
  BY <1>2, <1>3, <1>4, <1>5, <1>6
  DEF Identity!Spend, Identified, Spent, Transit, Held
<1>8. QED
  BY <1>1, <1>7 DEF Identity!Next

\* The writing of the file gives the identity to its machine.
LEMMA ReceiveSimulation ==
    ASSUME TypeOK, TypeOK', Inv, Apart, NEW r \in Runs, WriteConfig(r),
           run[r].by \in Machines
    PROVE  Identity!Next
<1> USE EnrollmentAssumption
<1>1. PICK m \in Machines, i \in Ids :
      /\ m = run[r].by /\ i = run[r].me.id
      /\ row[i] = [key |-> run[r].me.key, via |-> run[r].token, late |-> FALSE]
      /\ run[r].me.key \in Keys /\ run[r].token \in Tokens
      /\ token[run[r].token] = "used"
  BY DEF Inv, RunInv, WriteConfig, TypeOK, AllRuns, Identities
<1>2. row[i] # NoRow /\ i \in Transit
  BY <1>1 DEF NoRow, Transit
<1>3. Identified[i].via \in Spent
  BY <1>1, <1>2 DEF Identified, Issued, Spent
<1>4. Transit' = Transit \ {i}
  <2>1. run'[r].me.id = None /\ \A s \in Runs : s # r => run'[s] = run[s]
    BY DEF WriteConfig, FreeRun, Nobody, TypeOK
  <2>2. \A s \in Runs : s # r => run[s].me.id # i
    BY <1>1 DEF Apart
  <2>3. \A x : x \in Transit' <=> x \in Transit /\ x # i
    BY <1>1, <2>1, <2>2 DEF Transit
  <2>4. QED
    BY <2>3
<1>5. Held' = [Held EXCEPT ![m] = ({agent[m].id} \ {None}) \cup {i}]
  <2>1. /\ config'[m] = run[r].me /\ agent' = agent
        /\ \A n \in Machines : n # m => config'[n] = config[n]
    BY <1>1 DEF WriteConfig, TypeOK
  <2>2. Held'[m] = ({agent[m].id} \ {None}) \cup {i}
    BY <1>1, <2>1 DEF Held
  <2>3. \A n \in Machines : n # m => Held'[n] = Held[n]
    BY <2>1 DEF Held
  <2>4. Held = [n \in Machines |-> Held[n]] /\ Held' = [n \in Machines |-> Held'[n]]
    BY DEF Held
  <2>5. QED
    BY <1>1, <2>2, <2>3, <2>4
<1>6. {agent[m].id} \ {None} \in SUBSET Held[m]
  BY <1>1 DEF Held
<1>7. Identified' = Identified /\ Spent' = Spent
  BY DEF WriteConfig, Identified, Issued, Spent
<1>8. Identity!Receive(m, i)
  BY <1>2, <1>3, <1>4, <1>5, <1>6, <1>7
  DEF Identity!Receive, Identified, Spent, Transit, Held
<1>9. QED
  BY <1>1, <1>8 DEF Identity!Next

\* A step that leaves the rows and the used tokens alone and gives nobody an id
\* loses some, or nothing.
LEMMA LoseSimulation ==
    ASSUME TypeOK, TypeOK', NobodyGains, row' = row,
           \A t \in Tokens : token'[t] = "used" <=> token[t] = "used"
    PROVE  Identity!Lose
<1>1. Transit' \subseteq Transit
  BY DEF NobodyGains, Transit
<1>2. \A m \in Machines : Held'[m] \subseteq Held[m]
  BY DEF NobodyGains, Held
<1>3. Held' \in [Machines -> SUBSET Ids]
  <2>1. \A m \in Machines : /\ config'[m].id \in Ids \cup {None}
                            /\ agent'[m].id \in Ids \cup {None}
    BY DEF TypeOK, Identities
  <2>2. QED
    BY <2>1 DEF Held
<1>4. Identified' = Identified /\ Spent' = Spent
  BY DEF Identified, Issued, Spent
<1>5. QED
  BY <1>1, <1>2, <1>3, <1>4 DEF Identity!Lose, Identified, Spent, Transit, Held

\* Only a process that still runs saves an answer.
SavesItsOwn ==
    \A r \in Runs : run[r].at \in {"save", "write"} => run[r].by \in Machines

\* A run reaches the file only with its machine, and without it is freed.
LEMMA SaveStep == TypeOK /\ SavesItsOwn /\ [Next]_vars => SavesItsOwn'
<1> SUFFICES ASSUME TypeOK, SavesItsOwn, [Next]_vars PROVE SavesItsOwn'
  OBVIOUS
<1>1. ASSUME NEW r \in Runs,
             CheckToken(r) \/ MarkUsed(r) \/ WriteConfig(r) \/ Drop(r)
      PROVE  SavesItsOwn'
  BY <1>1 DEF CheckToken, MarkUsed, WriteConfig, Drop, FreeRun, SavesItsOwn, TypeOK,
              AllRuns
<1>2. ASSUME NEW r \in Runs, NEW i \in Ids, InsertDevice(r, i) PROVE SavesItsOwn'
  BY <1>2 DEF InsertDevice, SavesItsOwn, TypeOK, AllRuns
<1>3. ASSUME NEW r \in Runs, ReceiveIdentity(r) PROVE SavesItsOwn'
  <2>1. run[r].by \in Machines \cup {None}
    BY DEF TypeOK, AllRuns
  <2>2. QED
    BY <1>3, <2>1 DEF ReceiveIdentity, FreeRun, SavesItsOwn, TypeOK, AllRuns
<1>4. ASSUME NEW r \in Runs, TruncateConfig(r) PROVE SavesItsOwn'
  BY <1>4 DEF TruncateConfig, SavesItsOwn, TypeOK, AllRuns
<1>5. ASSUME NEW r \in Runs, NEW m \in Machines, NEW t \in Tokens, NEW k \in Keys,
             StartEnroll(m, t, k, r)
      PROVE  SavesItsOwn'
  BY <1>5 DEF StartEnroll, SavesItsOwn, TypeOK
<1>6. \A r \in Runs : Orphaned(run[r]).at \notin {"save", "write"}
  BY DEF Orphaned, FreeRun, TypeOK, AllRuns
<1>7. ASSUME NEW r \in Runs, Interrupt(r) PROVE SavesItsOwn'
  BY <1>6, <1>7 DEF Interrupt, SavesItsOwn, TypeOK
<1>8. ASSUME NEW m \in Machines, PowerCycle(m) PROVE SavesItsOwn'
  BY <1>6, <1>8 DEF PowerCycle, SavesItsOwn
<1>9. CASE UNCHANGED run
  BY <1>9 DEF SavesItsOwn
<1>10. QED
  BY <1>1, <1>2, <1>3, <1>4, <1>5, <1>7, <1>8, <1>9
  DEF Next, CreateToken, StartAgent, vars

\* Every step of the handler, the runs and the machines is a step of the promise.
LEMMA StepSimulation ==
    ASSUME TypeOK, TypeOK', Inv, Apart, KeysApart, SavesItsOwn, [Next]_vars
    PROVE  [Identity!Next]_Identity!vars
<1>1. ASSUME NEW r \in Runs, NEW i \in Ids, InsertDevice(r, i) PROVE Identity!Next
  BY <1>1, IssueSimulation
<1>2. ASSUME NEW r \in Runs, MarkUsed(r) PROVE Identity!Next
  BY <1>2, SpendSimulation
<1>3. ASSUME NEW r \in Runs, WriteConfig(r) PROVE Identity!Next
  <2>1. run[r].by \in Machines
    BY <1>3 DEF WriteConfig, SavesItsOwn
  <2>2. QED
    BY <1>3, <2>1, ReceiveSimulation
<1>4. ASSUME \A r \in Runs, i \in Ids : ~InsertDevice(r, i),
             \A r \in Runs : ~MarkUsed(r) /\ ~WriteConfig(r)
      PROVE  Identity!Next
  <2>1. NobodyGains
    BY <1>4, Gains
  <2>2. row' = row /\ \A t \in Tokens : token'[t] = "used" <=> token[t] = "used"
    <3>1. ASSUME NEW t \in Tokens, CreateToken(t)
          PROVE  row' = row /\ \A x \in Tokens : token'[x] = "used" <=> token[x] = "used"
      BY <3>1 DEF CreateToken, TypeOK
    <3>2. QED
      BY <1>4, <3>1 DEF Next, CheckToken, StartEnroll, ReceiveIdentity,
         TruncateConfig, Drop, Interrupt, StartAgent, PowerCycle, vars
  <2>3. Identity!Lose
    BY <2>1, <2>2, LoseSimulation
  <2>4. QED
    BY <2>3 DEF Identity!Next
<1>5. QED
  BY <1>1, <1>2, <1>3, <1>4

\* Whatever runs overlap, are interrupted or repeated, enrollment keeps the
\* promise of DeviceIdentities: an identity is issued once with a key of its
\* own, reaches one machine at most, once, and only when its token is spent.
THEOREM ImplementsIdentities == Spec => IssuesIdentities
<1>1. Init => Identity!Init
  BY DEF Init, Identity!Init, Issued, FreeRun, Nobody
<1>2. Init => SavesItsOwn
  BY DEF Init, SavesItsOwn, FreeRun
<1>3. TypeOK /\ TypeOK' /\ Inv /\ Apart /\ KeysApart /\ SavesItsOwn /\ [Next]_vars
         => [Identity!Next]_Identity!vars
  BY StepSimulation
<1>4. QED
  BY <1>1, <1>2, <1>3, SaveStep, Invariant, ApartInvariant, KeysInvariant, PTL
  DEF Spec, IssuesIdentities, Identity!Spec
-----------------------------------------------------------------------------
(***************************************************************************)
(* Without failures no row loses its machine.  Then every run belongs to a *)
(* machine that waits for it, a machine has at most one, and its file has  *)
(* no identity that the run could replace.                                 *)
(***************************************************************************)
OneRunEach ==
    /\ \A r \in Runs : run[r].at # "free" => run[r].by \in Machines
    /\ \A r \in Runs : run[r].by # None => config[run[r].by].id = None
    /\ \A r, s \in Runs : run[r].by # None /\ run[s].by = run[r].by => r = s

Kept(i) ==
    \/ \E r \in Runs : run[r].by # None /\ run[r].me.id = i
    \/ \E m \in Machines : config[m].id = i

LostInv ==
    /\ faults <= MaxFaults
    /\ faults = MaxFaults => OneRunEach
    /\ NoRowIsLost

\* The steps that are no failure.
Works ==
    \/ UNCHANGED vars
    \/ \E t \in Tokens : CreateToken(t)
    \/ \E r \in Runs :
          \/ CheckToken(r) \/ (\E i \in Ids : InsertDevice(r, i)) \/ MarkUsed(r)
          \/ ReceiveIdentity(r) \/ TruncateConfig(r) \/ WriteConfig(r)
          \/ \E m \in Machines, t \in Tokens, k \in Keys :
                StartEnroll(m, t, k, r) /\ UNCHANGED faults
    \/ \E m \in Machines : StartAgent(m)

\* A failure uses up one that is allowed.
LEMMA FaultsCount ==
  ASSUME TypeOK, LostInv, [Next]_vars
  PROVE  /\ faults' <= MaxFaults
         /\ faults' = MaxFaults => faults = MaxFaults /\ Works
<1> USE EnrollmentAssumption DEF LostInv, TypeOK
<1>1. CASE Works
  <2>1. faults' = faults
    BY <1>1 DEF Works, vars, CreateToken, CheckToken, InsertDevice, MarkUsed,
       ReceiveIdentity, TruncateConfig, WriteConfig, StartAgent
  <2>2. QED
    BY <1>1, <2>1
<1>2. CASE faults > 0 /\ faults' = faults - 1
  BY <1>2
<1>3. QED
  BY <1>1, <1>2
  DEF Next, Works, StartEnroll, Drop, Interrupt, PowerCycle, Fault

\* Nothing but a failure makes a run an orphan, or gives a machine two.
LEMMA OneRunStep ==
  ASSUME TypeOK, OneRunEach, Works
  PROVE  OneRunEach'
<1> USE EnrollmentAssumption DEF TypeOK
<1>1. CASE UNCHANGED <<run, config>>
  BY <1>1 DEF OneRunEach
<1>2. ASSUME NEW r \in Runs, UNCHANGED config,
             \A s \in Runs : s # r => run'[s] = run[s],
             run'[r].by = None /\ run'[r].at = "free"
      PROVE  OneRunEach'
  BY <1>2 DEF OneRunEach
<1>3. ASSUME NEW r \in Runs, UNCHANGED config,
             \A s \in Runs : s # r => run'[s] = run[s],
             run'[r].by = run[r].by, run[r].at # "free"
      PROVE  OneRunEach'
  BY <1>3 DEF OneRunEach
<1>4. ASSUME NEW r \in Runs,
             CheckToken(r) \/ (\E i \in Ids : InsertDevice(r, i)) \/ MarkUsed(r)
                \/ ReceiveIdentity(r)
      PROVE  OneRunEach'
  <2>1. /\ UNCHANGED config
        /\ \A s \in Runs : s # r => run'[s] = run[s]
        /\ run[r].at # "free"
    BY <1>4 DEF CheckToken, InsertDevice, MarkUsed, ReceiveIdentity
  <2>2. \/ run'[r].by = None /\ run'[r].at = "free"
        \/ run'[r].by = run[r].by
    BY <1>4 DEF CheckToken, InsertDevice, MarkUsed, ReceiveIdentity, FreeRun, AllRuns
  <2>3. QED
    BY <1>2, <1>3, <2>1, <2>2
<1>5. ASSUME NEW r \in Runs, NEW m \in Machines, NEW t \in Tokens, NEW k \in Keys,
             StartEnroll(m, t, k, r), UNCHANGED faults
      PROVE  OneRunEach'
  <2>1. /\ \A s \in Runs : s # r => run'[s] = run[s]
        /\ run'[r].by = m /\ run'[r].at = "sent"
        /\ config' = config /\ config[m].id = None
    BY <1>5 DEF StartEnroll
  <2>2. \A s \in Runs : run[s].by # m
    BY <1>5 DEF StartEnroll, Fault
  <2>3. QED
    BY <2>1, <2>2 DEF OneRunEach
<1>6. ASSUME NEW r \in Runs, TruncateConfig(r) PROVE OneRunEach'
  <2>1. /\ \A s \in Runs : s # r => run'[s] = run[s]
        /\ run'[r].by = run[r].by /\ run[r].at # "free"
    BY <1>6 DEF TruncateConfig, AllRuns
  <2>2. \A m \in Machines : config[m].id = None => config'[m].id = None
    BY <1>6 DEF TruncateConfig, Nobody
  <2>3. \A s \in Runs : run[s].by \in Machines \cup {None}
    BY DEF AllRuns
  <2>4. QED
    BY <2>1, <2>2, <2>3 DEF OneRunEach
<1>7. ASSUME NEW r \in Runs, WriteConfig(r) PROVE OneRunEach'
  <2>1. /\ \A s \in Runs : s # r => run'[s] = run[s]
        /\ run'[r].by = None /\ run'[r].at = "free"
    BY <1>7 DEF WriteConfig, FreeRun
  <2>2. run[r].by \in Machines
    BY <1>7 DEF WriteConfig, OneRunEach
  <2>3. \A m \in Machines : m # run[r].by => config'[m] = config[m]
    BY <1>7 DEF WriteConfig
  <2>4. \A s \in Runs : run[s].by \in Machines \cup {None}
    BY DEF AllRuns
  <2>5. QED
    BY <2>1, <2>2, <2>3, <2>4 DEF OneRunEach
<1>8. QED
  BY <1>1, <1>4, <1>5, <1>6, <1>7 DEF Works, vars, CreateToken, StartAgent

\* Such a step keeps what was kept: only its own run lets go of an identity, and
\* then the file of the run's machine has it.
LEMMA KeptStep ==
  ASSUME TypeOK, Inv, OneRunEach, Works, NEW i \in Ids, Kept(i)
  PROVE  Kept(i)'
<1> USE EnrollmentAssumption DEF TypeOK
<1>1. CASE UNCHANGED <<run, config>>
  BY <1>1 DEF Kept
<1>2. ASSUME NEW r \in Runs, UNCHANGED config,
             \A s \in Runs : s # r => run'[s] = run[s],
             \/ run[r].me.id = None
             \/ run'[r].by = run[r].by /\ run'[r].me.id = run[r].me.id
      PROVE  Kept(i)'
  BY <1>2 DEF Kept
<1>3. \A r \in Runs : /\ run[r].at \in {"free", "sent", "insert"} => run[r].me.id = None
                      /\ run[r].at # "free" => run[r].by \in Machines
  BY DEF Inv, RunInv, OneRunEach
<1>4. ASSUME NEW r \in Runs,
             CheckToken(r) \/ (\E j \in Ids : InsertDevice(r, j)) \/ MarkUsed(r)
                \/ ReceiveIdentity(r)
      PROVE  Kept(i)'
  <2>1. /\ UNCHANGED config
        /\ \A s \in Runs : s # r => run'[s] = run[s]
    BY <1>4 DEF CheckToken, InsertDevice, MarkUsed, ReceiveIdentity
  <2>2. \/ run[r].at \in {"sent", "insert"}
        \/ run'[r].by = run[r].by /\ run'[r].me.id = run[r].me.id
    BY <1>3, <1>4 DEF CheckToken, InsertDevice, MarkUsed, ReceiveIdentity, AllRuns
  <2>3. QED
    BY <1>2, <1>3, <2>1, <2>2
<1>5. ASSUME NEW r \in Runs, NEW m \in Machines, NEW t \in Tokens, NEW k \in Keys,
             StartEnroll(m, t, k, r)
      PROVE  Kept(i)'
  <2>1. /\ UNCHANGED config
        /\ \A s \in Runs : s # r => run'[s] = run[s]
        /\ run[r].at = "free"
    BY <1>5 DEF StartEnroll
  <2>2. QED
    BY <1>2, <1>3, <2>1
<1>6. ASSUME NEW r \in Runs, TruncateConfig(r) PROVE Kept(i)'
  <2>1. /\ \A s \in Runs : s # r => run'[s] = run[s]
        /\ run'[r].by = run[r].by /\ run'[r].me = run[r].me
    BY <1>6 DEF TruncateConfig, AllRuns
  <2>2. /\ config[run[r].by].id = None
        /\ \A m \in Machines : m # run[r].by => config'[m] = config[m]
    BY <1>3, <1>6 DEF TruncateConfig, OneRunEach
  <2>3. QED
    BY <2>1, <2>2 DEF Kept
<1>7. ASSUME NEW r \in Runs, WriteConfig(r) PROVE Kept(i)'
  <2>1. run[r].by \in Machines
    BY <1>3, <1>7 DEF WriteConfig
  <2>2. /\ \A s \in Runs : s # r => run'[s] = run[s]
        /\ config'[run[r].by] = run[r].me
        /\ \A m \in Machines : m # run[r].by => config'[m] = config[m]
    BY <1>7, <2>1 DEF WriteConfig
  <2>3. config[run[r].by].id = None
    BY <2>1 DEF OneRunEach
  <2>4. QED
    BY <2>1, <2>2, <2>3 DEF Kept
<1>8. QED
  BY <1>1, <1>4, <1>5, <1>6, <1>7 DEF Works, vars, CreateToken, StartAgent

\* A row that appears is in the run it was inserted for.
LEMMA NewRowKept ==
  ASSUME TypeOK, OneRunEach, Works, NEW i \in Ids,
         row[i] = NoRow, row'[i] # NoRow
  PROVE  Kept(i)'
<1> USE EnrollmentAssumption DEF TypeOK
<1>1. PICK r \in Runs, j \in Ids : InsertDevice(r, j)
  BY DEF Works, vars, CreateToken, CheckToken, MarkUsed, ReceiveIdentity,
         TruncateConfig, WriteConfig, StartEnroll, StartAgent
<1>2. i = j
  BY <1>1 DEF InsertDevice
<1>3. run'[r].me.id = i /\ run'[r].by = run[r].by
  BY <1>1, <1>2 DEF InsertDevice, AllRuns
<1>4. run[r].by # None
  BY <1>1 DEF InsertDevice, OneRunEach
<1>5. QED
  BY <1>3, <1>4 DEF Kept

\* Unless something fails, every device the server has a row for is a machine
\* that has, or still waits for, the identity of that row.
THEOREM RowsAreKept == Spec => []NoRowIsLost
<1>1. Init => LostInv
  BY EnrollmentAssumption DEF Init, LostInv, OneRunEach, NoRowIsLost, FreeRun
<1>2. TypeOK /\ Inv /\ LostInv /\ [Next]_vars => LostInv'
  <2> SUFFICES ASSUME TypeOK, Inv, LostInv, [Next]_vars PROVE LostInv'
    OBVIOUS
  <2>1. /\ faults' <= MaxFaults
        /\ faults' = MaxFaults => faults = MaxFaults /\ Works
    BY FaultsCount
  <2>2. faults' = MaxFaults => OneRunEach'
    BY <2>1, OneRunStep DEF LostInv
  <2>3. NoRowIsLost'
    <3> SUFFICES ASSUME faults' = MaxFaults, NEW i \in Ids, row'[i] # NoRow
                 PROVE  Kept(i)'
      BY DEF NoRowIsLost, Kept
    <3>1. row[i] # NoRow => Kept(i)
      BY <2>1 DEF LostInv, NoRowIsLost, Kept
    <3>2. QED
      BY <2>1, <3>1, KeptStep, NewRowKept DEF LostInv
  <2>4. QED
    BY <2>1, <2>2, <2>3 DEF LostInv
<1>3. QED
  BY <1>1, <1>2, Invariant, PTL DEF Spec, LostInv
=============================================================================
