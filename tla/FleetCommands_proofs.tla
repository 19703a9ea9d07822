------------------------ MODULE FleetCommands_proofs ------------------------
(***************************************************************************)
(* Proofs about FleetCommands, for every set of devices, commands and      *)
(* requests and every bound.                                               *)
(***************************************************************************)
EXTENDS FleetCommands, TLAPS

\* An agent waits exactly when it is in the heartbeat call.
Waiting == \A d \in Devices : mode[d] = "waiting" <=> cur[d] # None

\* A request in use belongs to a device.
Owned == \A r \in Reqs : req[r].phase # "free" => req[r].dev \in Devices

TypeInv == TypeOK /\ Waiting /\ Owned

\* The types, with what they need to be inductive: the reply an agent reads is
\* one of the requests, and the handler answers a device.
LEMMA TypeInvariant == Spec => []TypeInv
<1>1. Init => TypeInv
  BY FleetAssumption
  DEF Init, TypeInv, TypeOK, Waiting, Owned, Statuses, AllKinds, Requests, FreeReq,
      Heartbeat, Phases, Modes, Screens, Scheduled
<1>2. TypeInv /\ [Next]_vars => TypeInv'
  <2> SUFFICES ASSUME TypeInv, [Next]_vars PROVE TypeInv'
    OBVIOUS
  <2> USE FleetAssumption
  <2>1. ASSUME NEW c \in Cmds, NEW t \in Targets, NEW k \in Kinds,
               PostCommand(c, t, k)
        PROVE  TypeInv'
    BY <2>1 DEF TypeInv, TypeOK, Waiting, Owned, PostCommand, FlagAfter, Statuses,
               agentVars
  <2>2. ASSUME NEW c \in Cmds, QueueCommand(c) PROVE TypeInv'
    BY <2>2 DEF TypeInv, TypeOK, Waiting, Owned, QueueCommand, Statuses, agentVars
  <2>3. ASSUME NEW c \in Cmds, AbortPost(c) PROVE TypeInv'
    <3>1. kind' \in [Cmds -> AllKinds]
      BY <2>3 DEF TypeInv, TypeOK, Waiting, Owned, AbortPost, AllKinds
    <3>2. QED
      BY <2>3, <3>1 DEF TypeInv, TypeOK, Waiting, Owned, AbortPost, Fault, Statuses, agentVars
  <2>4. CASE Second
    BY <2>4 DEF TypeInv, TypeOK, Waiting, Owned, Second, agentVars, commandVars
  <2>5. ASSUME NEW r \in Reqs, ReadDevice(r) PROVE TypeInv'
    <3>1. req' \in [Reqs -> Requests] /\ Owned'
      BY <2>5 DEF TypeInv, TypeOK, Waiting, Owned, ReadDevice, Requests, Heartbeat, Phases
    <3>2. QED
      BY <2>5, <3>1 DEF TypeInv, TypeOK, Waiting, ReadDevice, agentVars, commandVars
  <2>6. ASSUME NEW r \in Reqs, SelectPending(r) PROVE TypeInv'
    <3>1. req' \in [Reqs -> Requests] /\ Owned'
      <4>1. PendingFor(req[r].dev) \in SUBSET Cmds
        BY DEF PendingFor
      <4>2. QED
        BY <2>6, <4>1 DEF TypeInv, TypeOK, Waiting, Owned, SelectPending, Requests, Heartbeat, Phases
    <3>2. QED
      BY <2>6, <3>1 DEF TypeInv, TypeOK, Waiting, SelectPending, agentVars, commandVars
  <2>7. ASSUME NEW r \in Reqs, MarkAcknowledged(r) PROVE TypeInv'
    <3>1. req' \in [Reqs -> Requests] /\ Owned'
      BY <2>7 DEF TypeInv, TypeOK, Waiting, Owned, MarkAcknowledged, Answer, Requests, Heartbeat, Phases
    <3>2. QED
      BY <2>7, <3>1 DEF TypeInv, TypeOK, Waiting, MarkAcknowledged, Statuses, agentVars
  <2>8. ASSUME NEW m \in reports, CompleteCommand(m) PROVE TypeInv'
    BY <2>8 DEF TypeInv, TypeOK, Waiting, Owned, CompleteCommand, Reports, Statuses, agentVars
  <2>9. ASSUME NEW d \in Devices, NEW r \in Reqs, StartTick(d, r) PROVE TypeInv'
    BY <2>9 DEF TypeInv, TypeOK, Waiting, Owned, StartTick, Requests, Heartbeat, Phases, Modes, commandVars
  <2>10. ASSUME NEW d \in Devices, ReceiveReply(d) PROVE TypeInv'
    <3>1. req' \in [Reqs -> Requests] /\ Owned'
      BY <2>10 DEF TypeInv, TypeOK, Waiting, Owned, ReceiveReply, Requests, Heartbeat, Phases, FreeReq
    <3>2. todo' \in [Devices -> SUBSET Cmds]
      BY <2>10 DEF TypeInv, TypeOK, Waiting, Owned, ReceiveReply, Requests
    <3>3. agentLocked' \in [Devices -> BOOLEAN]
      BY <2>10 DEF TypeInv, TypeOK, Waiting, Owned, ReceiveReply, Requests
    <3>4. QED
      BY <2>10, <3>1, <3>2, <3>3 DEF TypeInv, TypeOK, Waiting, ReceiveReply, Modes, commandVars
  <2>11. ASSUME NEW d \in Devices, NEW c \in Cmds, NEW ok \in BOOLEAN,
                ExecuteCommand(d, c, ok)
         PROVE  TypeInv'
    <3>1. /\ ran' \in [Devices -> Seq(Runs)]
          /\ doing' \in [Devices -> Runs \cup {NoReport}]
      <4>1. [cmd |-> c, ok |-> ok] \in Runs
        BY DEF Runs
      <4>2. QED
        BY <2>11, <4>1 DEF TypeInv, TypeOK, Waiting, Owned, ExecuteCommand
    <3>2. /\ agentLocked' \in [Devices -> BOOLEAN]
          /\ screen' \in [Devices -> Screens]
      BY <2>11 DEF TypeInv, TypeOK, Waiting, Owned, ExecuteCommand, Screens
    <3>3. ending' \in [Devices -> SUBSET Scheduled]
      BY <2>11 DEF TypeInv, TypeOK, Waiting, Owned, ExecuteCommand, Scheduled
    <3>4. QED
      BY <2>11, <3>1, <3>2, <3>3 DEF TypeInv, TypeOK, Waiting, Owned, ExecuteCommand, commandVars
  <2>12. ASSUME NEW d \in Devices, ReportResult(d) PROVE TypeInv'
    <3>1. reports' \subseteq Reports
      BY <2>12 DEF TypeInv, TypeOK, Waiting, Owned, ReportResult, ReportOf, Runs, Reports
    <3>2. QED
      BY <2>12, <3>1 DEF TypeInv, TypeOK, Waiting, Owned, ReportResult, Modes, commandVars
  <2>a. ASSUME NEW d \in Devices, ReportAnswered(d) \/ ReportTimeout(d) PROVE TypeInv'
    <3>1. ReportOver(d) /\ faults' \in Nat
      BY <2>a DEF ReportAnswered, ReportTimeout, Fault, TypeInv, TypeOK
    <3>2. doing' \in [Devices -> Runs \cup {NoReport}]
      BY <3>1 DEF ReportOver, TypeInv, TypeOK
    <3>3. QED
      BY <3>1, <3>2 DEF TypeInv, TypeOK, Waiting, Owned, ReportOver, Modes, commandVars
  <2>13. ASSUME NEW d \in Devices, FinishTick(d) PROVE TypeInv'
    BY <2>13 DEF TypeInv, TypeOK, Waiting, Owned, FinishTick, Modes, Screens, commandVars
  <2>14. ASSUME NEW d \in Devices, Timeout(d) PROVE TypeInv'
    BY <2>14 DEF TypeInv, TypeOK, Waiting, Owned, Timeout, Fault, Modes, commandVars
  <2>15. ASSUME NEW r \in Reqs, DiscardReply(r) PROVE TypeInv'
    BY <2>15 DEF TypeInv, TypeOK, Waiting, Owned, DiscardReply, Requests, Heartbeat, Phases, FreeReq, commandVars,
                 agentVars
  <2>16. ASSUME NEW r \in Reqs, DropHeartbeat(r) PROVE TypeInv'
    BY <2>16 DEF TypeInv, TypeOK, Waiting, Owned, DropHeartbeat, Fault, Requests, Heartbeat, Phases, FreeReq,
                 Modes, commandVars
  <2>17. ASSUME NEW m \in reports, DropReport(m) PROVE TypeInv'
    BY <2>17 DEF TypeInv, TypeOK, Waiting, Owned, DropReport, Fault, commandVars, agentVars
  <2>18. ASSUME NEW d \in Devices, AgentCrash(d) PROVE TypeInv'
    BY <2>18 DEF TypeInv, TypeOK, Waiting, Owned, AgentCrash, AgentGone, ForgetEnding, Fault, Modes,
                 Scheduled, commandVars
  <2>19. ASSUME NEW d \in Devices, Reboot(d) PROVE TypeInv'
    BY <2>19 DEF TypeInv, TypeOK, Waiting, Owned, Reboot, Booted, AgentGone, Modes, Screens, commandVars
  <2>20. ASSUME NEW d \in Devices, WipeStop(d) PROVE TypeInv'
    BY <2>20 DEF TypeInv, TypeOK, Waiting, Owned, WipeStop, AgentGone, ForgetEnding, Modes,
                 Scheduled, commandVars
  <2>21. ASSUME NEW d \in Devices, PowerCycle(d) PROVE TypeInv'
    BY <2>21 DEF TypeInv, TypeOK, Waiting, Owned, PowerCycle, Booted, AgentGone, Fault, Modes,
                 Screens, commandVars
  <2>b. ASSUME NEW d \in Devices, Logout(d) PROVE TypeInv'
    BY <2>b DEF TypeInv, TypeOK, Waiting, Owned, Logout, Screens, commandVars
  <2>22. CASE UNCHANGED vars
    BY <2>22 DEF TypeInv, TypeOK, Waiting, Owned, vars, commandVars, agentVars
  <2>23. QED
    BY <2>1, <2>2, <2>3, <2>4, <2>5, <2>6, <2>7, <2>8, <2>9, <2>10, <2>11,
       <2>12, <2>a, <2>b, <2>13, <2>14, <2>15, <2>16, <2>17, <2>18, <2>19, <2>20, <2>21,
       <2>22
    DEF Next, AdminNext, ServerNext, AgentNext, FaultNext
<1>3. QED
  BY <1>1, <1>2, PTL DEF Spec

\* The variables of the module keep their types: in particular an agent only
\* ever waits for a request that exists and only reports what it executed.
THEOREM TypeCorrect == Spec => []TypeOK
BY TypeInvariant, PTL DEF TypeInv

-----------------------------------------------------------------------------
(***************************************************************************)
(* At-most-once execution.  A command a device executed, or is about to,   *)
(* is settled: its row is acknowledged or has a result, so that no later   *)
(* SELECT returns it.  Between the SELECT and the UPDATE of a heartbeat    *)
(* its rows are only pending; they are safe because the device they are    *)
(* for waits, and executes nothing.                                        *)
(***************************************************************************)
Stored(c) == status[c] \notin {"none", "posting"}

Settled(c) == Stored(c) /\ status[c] # "pending"

NotRun(c, d) == \A i \in DOMAIN ran[d] : ran[d][i].cmd # c

Logged(d, c, ok) == \E i \in DOMAIN ran[d] : ran[d][i] = [cmd |-> c, ok |-> ok]

\* An agent waits for a request of its own that is still under way.
OwnRequest ==
    \A d \in Devices : cur[d] # None =>
        req[cur[d]].dev = d /\ req[cur[d]].phase # "free"

\* The rows a handler holds are rows for its device.
RowsStored ==
    \A r \in Reqs : req[r].phase \in {"mark", "reply"} =>
        \A c \in req[r].rows : Stored(c) /\ Visible(c, req[r].dev)

\* An answer holds acknowledged rows only.
ReplySettled ==
    \A r \in Reqs : req[r].phase = "reply" =>
        \A c \in req[r].rows : Settled(c)

\* The answer an agent waits for holds nothing it has executed.
RowsFresh ==
    \A d \in Devices :
        cur[d] # None /\ req[cur[d]].phase \in {"mark", "reply"} =>
            \A c \in req[cur[d]].rows : NotRun(c, d)

\* What is still to be executed was not executed before, and is settled.
TodoFresh ==
    \A d \in Devices : \A c \in todo[d] :
        /\ mode[d] \in {"working", "reporting"}
        /\ NotRun(c, d) /\ Settled(c) /\ Visible(c, d)

RanSettled ==
    \A d \in Devices : \A i \in DOMAIN ran[d] :
        Settled(ran[d][i].cmd) /\ Visible(ran[d][i].cmd, d)

\* What an agent reports, it has executed with that result.
ReportsLogged ==
    /\ \A m \in reports : Logged(m.dev, m.cmd, m.ok)
    /\ \A d \in Devices :
          doing[d] # NoReport => Logged(d, doing[d].cmd, doing[d].ok)

IInv == /\ OwnRequest
        /\ RowsStored
        /\ ReplySettled
        /\ RowsFresh
        /\ TodoFresh
        /\ RanSettled
        /\ ReportsLogged
        /\ AtMostOnce
        /\ ResultIsTrue

-----------------------------------------------------------------------------
\* Appending to a sequence: the domain, the old elements and the new one.
LEMMA AppendFacts ==
  ASSUME NEW S, NEW s \in Seq(S), NEW e \in S
  PROVE  /\ DOMAIN Append(s, e) = DOMAIN s \cup {Len(s) + 1}
         /\ Len(s) + 1 \notin DOMAIN s
         /\ Append(s, e)[Len(s) + 1] = e
         /\ \A i \in DOMAIN s : Append(s, e)[i] = s[i]
OBVIOUS

\* The table never takes a row back: no step returns a row to pending, and its
\* device_id never changes.
LEMMA RowsAreStable ==
  ASSUME TypeInv, [Next]_vars, NEW c \in Cmds
  PROVE  /\ Stored(c) => Stored(c)' /\ target'[c] = target[c]
         /\ Settled(c) => Settled(c)'
<1>1. ASSUME NEW b \in Cmds, NEW t, NEW k, PostCommand(b, t, k)
      PROVE  /\ Stored(c) => Stored(c)' /\ target'[c] = target[c]
             /\ Settled(c) => Settled(c)'
  BY <1>1 DEF PostCommand, Stored, Settled, TypeInv, TypeOK
<1>2. ASSUME NEW b \in Cmds, QueueCommand(b) \/ AbortPost(b)
      PROVE  /\ Stored(c) => Stored(c)' /\ target'[c] = target[c]
             /\ Settled(c) => Settled(c)'
  BY <1>2 DEF QueueCommand, AbortPost, Stored, Settled, TypeInv, TypeOK
<1>3. ASSUME NEW r \in Reqs, MarkAcknowledged(r)
      PROVE  /\ Stored(c) => Stored(c)' /\ target'[c] = target[c]
             /\ Settled(c) => Settled(c)'
  BY <1>3 DEF MarkAcknowledged, Stored, Settled, TypeInv, TypeOK
<1>4. ASSUME NEW m \in reports, CompleteCommand(m)
      PROVE  /\ Stored(c) => Stored(c)' /\ target'[c] = target[c]
             /\ Settled(c) => Settled(c)'
  BY <1>4 DEF CompleteCommand, Stored, Settled, TypeInv, TypeOK, Reports
<1>5. CASE UNCHANGED commandVars
  BY <1>5 DEF Stored, Settled, commandVars
<1>6. QED
  BY <1>1, <1>2, <1>3, <1>4, <1>5
  DEF Next, AdminNext, ServerNext, AgentNext, FaultNext, vars, Second,
      ReadDevice, SelectPending, StartTick, ReceiveReply, Timeout,
      DiscardReply, ExecuteCommand, ReportResult, ReportAnswered,
      ReportTimeout, ReportOver, FinishTick, DropHeartbeat,
      DropReport, AgentCrash, Logout, Reboot, WipeStop, PowerCycle, Booted, AgentGone

\* What the history and the lists hold are commands.
LEMMA Members ==
  ASSUME TypeInv
  PROVE  /\ \A d \in Devices : \A c \in todo[d] : c \in Cmds
         /\ \A r \in Reqs : \A c \in req[r].rows : c \in Cmds
         /\ \A d \in Devices : \A i \in DOMAIN ran[d] : ran[d][i].cmd \in Cmds
         /\ \A d \in Devices : cur[d] # None => cur[d] \in Reqs
<1>1. \A d \in Devices : \A i \in DOMAIN ran[d] : ran[d][i] \in Runs
  BY DEF TypeInv, TypeOK
<1>2. QED
  BY <1>1 DEF TypeInv, TypeOK, Requests, Runs

\* A step of the server's table or of the session alone, or one that only
\* removes reports.
Quiet == /\ UNCHANGED <<req, mode, cur, todo, doing, ran>>
         /\ reports' \subseteq reports

\* Such a step keeps everything but, perhaps, the truth of the results.
LEMMA QuietSteps ==
  ASSUME TypeInv, IInv, [Next]_vars, Quiet
  PROVE  /\ OwnRequest'
         /\ RowsStored'
         /\ ReplySettled'
         /\ RowsFresh'
         /\ TodoFresh'
         /\ RanSettled'
         /\ ReportsLogged'
         /\ AtMostOnce'
<1>1. \A c \in Cmds : /\ Stored(c) => Stored(c)' /\ target'[c] = target[c]
                      /\ Settled(c) => Settled(c)'
  BY RowsAreStable
<1>2. UNCHANGED <<req, mode, cur, todo, doing, ran>> /\ reports' \subseteq reports
  BY DEF Quiet
<1>3. OwnRequest' /\ RowsFresh' /\ AtMostOnce'
  BY <1>2 DEF IInv, OwnRequest, RowsFresh, AtMostOnce, NotRun
<1>4. RowsStored' /\ ReplySettled'
  BY <1>1, <1>2, Members DEF IInv, RowsStored, ReplySettled, Visible
<1>5. TodoFresh'
  BY <1>1, <1>2, Members DEF IInv, TodoFresh, NotRun, Visible, Settled
<1>6. RanSettled'
  BY <1>1, <1>2, Members DEF IInv, RanSettled, Visible, Settled
<1>7. ReportsLogged'
  BY <1>2 DEF IInv, ReportsLogged, Logged
<1>8. QED
  BY <1>3, <1>4, <1>5, <1>6, <1>7

\* A step that leaves the table and the history alone keeps the results true.
LEMMA ResultsStayTrue ==
  ASSUME ResultIsTrue, UNCHANGED <<commandVars, ran>>
  PROVE  ResultIsTrue'
BY DEF ResultIsTrue, Visible, commandVars

\* The strengthening is inductive: one step per action of the module.
LEMMA Inductive ==
  ASSUME TypeInv, IInv, [Next]_vars
  PROVE  IInv'
<1>0. \A c \in Cmds : /\ Stored(c) => Stored(c)' /\ target'[c] = target[c]
                      /\ Settled(c) => Settled(c)'
  BY RowsAreStable
<1>1. ASSUME NEW c \in Cmds, NEW t \in Targets, NEW k \in Kinds,
             PostCommand(c, t, k)
      PROVE  IInv'
  <2>1. Quiet
    BY <1>1 DEF PostCommand, Quiet, agentVars
  <2>2. \A b \in Cmds : status'[b] \in {"completed", "failed"} =>
                           status'[b] = status[b]
    BY <1>1 DEF PostCommand, TypeInv, TypeOK
  <2>3. ResultIsTrue'
    BY <1>0, <2>1, <2>2 DEF IInv, ResultIsTrue, Visible, Stored, Quiet
  <2>4. QED
    BY <2>1, <2>3, QuietSteps DEF IInv
<1>2. ASSUME NEW c \in Cmds, QueueCommand(c) \/ AbortPost(c) PROVE IInv'
  <2>1. Quiet
    BY <1>2 DEF QueueCommand, AbortPost, Quiet, agentVars
  <2>2. \A b \in Cmds : status'[b] \in {"completed", "failed"} =>
                           status'[b] = status[b]
    BY <1>2 DEF QueueCommand, AbortPost, TypeInv, TypeOK
  <2>3. ResultIsTrue'
    BY <1>0, <2>1, <2>2 DEF IInv, ResultIsTrue, Visible, Stored, Quiet
  <2>4. QED
    BY <2>1, <2>3, QuietSteps DEF IInv
<1>3. CASE Second
  <2>1. Quiet /\ UNCHANGED <<commandVars, ran>>
    BY <1>3 DEF Second, Quiet, agentVars
  <2>2. QED
    BY <2>1, QuietSteps, ResultsStayTrue DEF IInv
<1>4. ASSUME NEW r \in Reqs, ReadDevice(r) PROVE IInv'
  <2>1. UNCHANGED <<commandVars, reports, mode, cur, todo, doing, ran>>
    BY <1>4 DEF ReadDevice, agentVars
  <2>2. OwnRequest' /\ RowsStored' /\ ReplySettled' /\ RowsFresh'
    BY <1>4, <2>1 DEF ReadDevice, Heartbeat, IInv, OwnRequest, RowsStored,
         ReplySettled, RowsFresh, TypeInv, TypeOK, Stored, Settled, Visible,
         NotRun, commandVars
  <2>3. TodoFresh' /\ RanSettled' /\ ReportsLogged' /\ AtMostOnce'
    BY <2>1 DEF IInv, TodoFresh, RanSettled, ReportsLogged, AtMostOnce, NotRun,
                Settled, Stored, Visible, Logged, commandVars
  <2>4. QED
    BY <2>1, <2>2, <2>3, ResultsStayTrue DEF IInv
<1>5. ASSUME NEW r \in Reqs, SelectPending(r) PROVE IInv'
  <2>1. UNCHANGED <<commandVars, reports, mode, cur, todo, doing, ran>>
    BY <1>5 DEF SelectPending, agentVars
  <2>2. \A c \in PendingFor(req[r].dev) :
           c \in Cmds /\ Stored(c) /\ ~Settled(c) /\ Visible(c, req[r].dev)
    BY DEF PendingFor, Stored, Settled
  <2>3. OwnRequest'
    BY <1>5, <2>1 DEF SelectPending, Heartbeat, IInv, OwnRequest, TypeInv, TypeOK
  <2>4. RowsStored' /\ ReplySettled'
    BY <1>5, <2>1, <2>2 DEF SelectPending, Heartbeat, IInv, RowsStored,
         ReplySettled, TypeInv, TypeOK, Stored, Settled, Visible, commandVars
  <2>5. \A d \in Devices : \A c \in PendingFor(req[r].dev) : NotRun(c, d)
    BY <2>2 DEF IInv, RanSettled, NotRun
  <2>6. RowsFresh'
    BY <1>5, <2>1, <2>5 DEF SelectPending, Heartbeat, IInv, RowsFresh, TypeInv,
                            TypeOK, NotRun
  <2>7. TodoFresh' /\ RanSettled' /\ ReportsLogged' /\ AtMostOnce'
    BY <2>1 DEF IInv, TodoFresh, RanSettled, ReportsLogged, AtMostOnce, NotRun,
                Settled, Stored, Visible, Logged, commandVars
  <2>8. QED
    BY <2>1, <2>3, <2>4, <2>6, <2>7, ResultsStayTrue DEF IInv
<1>6. ASSUME NEW r \in Reqs, MarkAcknowledged(r) PROVE IInv'
  <2>1. UNCHANGED <<target, reports, mode, cur, todo, doing, ran>>
    BY <1>6 DEF MarkAcknowledged, agentVars
  <2>2. OwnRequest'
    BY <1>6, <2>1 DEF MarkAcknowledged, Answer, Heartbeat, IInv, OwnRequest,
                      TypeInv, TypeOK
  <2>3. RowsFresh'
    BY <1>6, <2>1 DEF MarkAcknowledged, Answer, Heartbeat, IInv, RowsFresh,
                      TypeInv, TypeOK, NotRun
  <2>4. \A c \in req[r].rows : Settled(c)'
    BY <1>6, Members DEF MarkAcknowledged, Settled, Stored
  <2>5. RowsStored' /\ ReplySettled'
    BY <1>6, <1>0, <2>1, <2>4, Members DEF MarkAcknowledged, Answer, Heartbeat, IInv,
         RowsStored, ReplySettled, TypeInv, TypeOK, Visible, Settled
  <2>6. TodoFresh' /\ RanSettled'
    BY <1>0, <2>1, Members DEF IInv, TodoFresh, RanSettled, NotRun, Visible, Settled
  <2>7. ReportsLogged' /\ AtMostOnce'
    BY <2>1 DEF IInv, ReportsLogged, Logged, AtMostOnce
  <2>8. ResultIsTrue'
    BY <1>6, <2>1 DEF MarkAcknowledged, IInv, ResultIsTrue, Visible
  <2>9. QED
    BY <2>2, <2>3, <2>5, <2>6, <2>7, <2>8 DEF IInv
<1>7. ASSUME NEW m \in reports, CompleteCommand(m) PROVE IInv'
  <2>1. Quiet
    BY <1>7 DEF CompleteCommand, Quiet, agentVars
  <2>2. Logged(m.dev, m.cmd, m.ok) /\ m.dev \in Devices /\ m.cmd \in Cmds /\ m.ok \in BOOLEAN
    BY DEF IInv, ReportsLogged, TypeInv, TypeOK, Reports
  <2>3. ResultIsTrue'
    BY <1>7, <2>1, <2>2 DEF CompleteCommand, ResultIsTrue, Visible, TypeInv, TypeOK,
                            IInv, Quiet, Logged
  <2>4. QED
    BY <2>1, <2>3, QuietSteps DEF IInv
<1>8. ASSUME NEW d \in Devices, NEW r \in Reqs, StartTick(d, r) PROVE IInv'
  <2>1. UNCHANGED <<commandVars, reports, todo, doing, ran>>
    BY <1>8 DEF StartTick
  <2>2. OwnRequest' /\ RowsFresh'
    BY <1>8, <2>1, Members DEF StartTick, Heartbeat, IInv, OwnRequest, RowsFresh,
                               TypeInv, TypeOK, NotRun
  <2>3. RowsStored' /\ ReplySettled'
    BY <1>8, <2>1 DEF StartTick, Heartbeat, IInv, RowsStored, ReplySettled,
                      TypeInv, TypeOK, Stored, Settled, Visible, commandVars
  <2>4. TodoFresh'
    BY <1>8, <2>1 DEF StartTick, IInv, TodoFresh, NotRun, Settled, Stored,
                      Visible, TypeInv, TypeOK, commandVars
  <2>5. RanSettled' /\ ReportsLogged' /\ AtMostOnce'
    BY <2>1 DEF IInv, RanSettled, ReportsLogged, AtMostOnce,
                Settled, Stored, Visible, Logged, commandVars
  <2>6. QED
    BY <2>1, <2>2, <2>3, <2>4, <2>5, ResultsStayTrue DEF IInv
<1>9. ASSUME NEW d \in Devices, ReceiveReply(d) PROVE IInv'
  <2>1. UNCHANGED <<commandVars, reports, doing, ran>>
    BY <1>9 DEF ReceiveReply
  <2>2. cur[d] \in Reqs /\ cur[d] # None /\ req[cur[d]].dev = d
    BY <1>9, Members DEF ReceiveReply, TypeInv, Waiting, IInv, OwnRequest
  <2>3. OwnRequest' /\ RowsFresh'
    BY <1>9, <2>1, <2>2, Members DEF ReceiveReply, FreeReq, Heartbeat, IInv, OwnRequest,
         RowsFresh, TypeInv, TypeOK, NotRun
  <2>4. RowsStored' /\ ReplySettled'
    BY <1>9, <2>1, <2>2 DEF ReceiveReply, FreeReq, Heartbeat, IInv, RowsStored,
         ReplySettled, TypeInv, TypeOK, Stored, Settled, Visible, commandVars
  <2>5. TodoFresh'
    BY <1>9, <2>1, <2>2 DEF ReceiveReply, IInv, TodoFresh, RowsFresh, RowsStored,
         ReplySettled, NotRun, Settled, Stored, Visible, TypeInv, TypeOK, commandVars
  <2>6. RanSettled' /\ ReportsLogged' /\ AtMostOnce'
    BY <2>1 DEF IInv, RanSettled, ReportsLogged, AtMostOnce,
                Settled, Stored, Visible, Logged, commandVars
  <2>7. QED
    BY <2>1, <2>3, <2>4, <2>5, <2>6, ResultsStayTrue DEF IInv
<1>10. ASSUME NEW d \in Devices, NEW c \in Cmds, NEW ok \in BOOLEAN,
              ExecuteCommand(d, c, ok)
       PROVE  IInv'
  <2> DEFINE e == [cmd |-> c, ok |-> ok]
             n == Len(ran[d]) + 1
  <2>1. UNCHANGED <<commandVars, reports, mode, cur, req>>
    BY <1>10 DEF ExecuteCommand
  <2>2. /\ c \in todo[d] /\ NotRun(c, d) /\ Settled(c) /\ Visible(c, d)
        /\ mode[d] = "working" /\ cur[d] = None
    BY <1>10 DEF ExecuteCommand, NextOf, IInv, TodoFresh, TypeInv, Waiting
  <2>3. e \in Runs /\ e.cmd = c
    BY DEF Runs
  <2>4. /\ \A b \in Devices : b # d => ran'[b] = ran[b]
        /\ ran'[d] = Append(ran[d], e)
    BY <1>10 DEF ExecuteCommand, TypeInv, TypeOK
  <2>5. /\ DOMAIN ran'[d] = DOMAIN ran[d] \cup {n}
        /\ n \notin DOMAIN ran[d]
        /\ ran'[d][n] = e
        /\ \A i \in DOMAIN ran[d] : ran'[d][i] = ran[d][i]
    BY <2>3, <2>4, AppendFacts DEF TypeInv, TypeOK
  <2> HIDE DEF e, n
  <2>6. \A b \in Devices : \A x, y : Logged(b, x, y) => Logged(b, x, y)'
    BY <2>4, <2>5 DEF Logged
  <2>7. \A b \in Devices : \A x \in Cmds :
            NotRun(x, b) /\ (b # d \/ x # c) => NotRun(x, b)'
    BY <2>3, <2>4, <2>5 DEF NotRun
  <2>8. OwnRequest' /\ RowsStored' /\ ReplySettled'
    BY <2>1 DEF IInv, OwnRequest, RowsStored, ReplySettled, Stored, Settled,
                Visible, commandVars
  <2>9. RowsFresh'
    BY <2>1, <2>2, <2>7, Members DEF IInv, RowsFresh
  <2>10. \A b \in Devices : \A x \in todo'[b] : x \in todo[b] /\ (b # d \/ x # c)
    BY <1>10 DEF ExecuteCommand, TypeInv, TypeOK
  <2>11. TodoFresh'
    BY <2>1, <2>7, <2>10, Members DEF IInv, TodoFresh, Settled, Stored, Visible, commandVars
  <2>12. RanSettled'
    BY <2>1, <2>2, <2>3, <2>4, <2>5 DEF IInv, RanSettled, Settled, Stored,
                                        Visible, commandVars
  <2>13. ReportsLogged'
    <3>1. (\A m \in reports : Logged(m.dev, m.cmd, m.ok))'
      BY <2>1, <2>6 DEF IInv, ReportsLogged, TypeInv, TypeOK, Reports
    <3>2. Logged(d, c, ok)'
      BY <2>5 DEF Logged, e
    <3>3. (\A b \in Devices : doing[b] # NoReport =>
              Logged(b, doing[b].cmd, doing[b].ok))'
      <4>1. /\ doing'[d].cmd = c /\ doing'[d].ok = ok
            /\ \A b \in Devices : b # d => doing'[b] = doing[b]
        BY <1>10 DEF ExecuteCommand, TypeInv, TypeOK
      <4>2. QED
        BY <2>6, <3>2, <4>1 DEF IInv, ReportsLogged, Logged
    <3>4. QED
      BY <3>1, <3>3 DEF ReportsLogged
  <2>14. AtMostOnce'
    BY <2>2, <2>3, <2>4, <2>5 DEF IInv, AtMostOnce, NotRun
  <2>15. ResultIsTrue'
    BY <2>1, <2>4, <2>5 DEF IInv, ResultIsTrue, Visible, commandVars
  <2>16. QED
    BY <2>8, <2>9, <2>11, <2>12, <2>13, <2>14, <2>15 DEF IInv
<1>11. ASSUME NEW d \in Devices, ReportResult(d) PROVE IInv'
  <2>1. UNCHANGED <<commandVars, cur, req, todo, doing, ran>>
    BY <1>11 DEF ReportResult
  <2>2. Logged(d, doing[d].cmd, doing[d].ok)
    BY <1>11 DEF ReportResult, IInv, ReportsLogged
  <2>3. ReportsLogged'
    BY <1>11, <2>1, <2>2 DEF ReportResult, ReportOf, IInv, ReportsLogged, Logged
  <2>4. TodoFresh'
    BY <1>11, <2>1 DEF ReportResult, IInv, TodoFresh, NotRun, Settled, Stored,
                       Visible, TypeInv, TypeOK, commandVars
  <2>5. QED
    BY <2>1, <2>3, <2>4, ResultsStayTrue DEF IInv, OwnRequest, RowsStored,
       ReplySettled, RowsFresh, RanSettled, AtMostOnce, NotRun,
       Settled, Stored, Visible, commandVars
<1>a. ASSUME NEW d \in Devices, ReportOver(d) PROVE IInv'
  <2>1. UNCHANGED <<commandVars, cur, req, todo, reports, ran>>
    BY <1>a DEF ReportOver
  <2>2. \A b \in Devices : doing'[b] # NoReport => doing'[b] = doing[b]
    BY <1>a DEF ReportOver, TypeInv, TypeOK
  <2>3. ReportsLogged'
    BY <2>1, <2>2 DEF IInv, ReportsLogged, Logged
  <2>4. TodoFresh'
    BY <1>a, <2>1 DEF ReportOver, IInv, TodoFresh, NotRun, Settled, Stored,
                      Visible, TypeInv, TypeOK, commandVars
  <2>5. QED
    BY <2>1, <2>3, <2>4, ResultsStayTrue DEF IInv, OwnRequest, RowsStored,
       ReplySettled, RowsFresh, RanSettled, AtMostOnce, NotRun,
       Settled, Stored, Visible, commandVars
<1>12. ASSUME NEW d \in Devices, FinishTick(d) PROVE IInv'
  <2>1. UNCHANGED <<commandVars, cur, req, todo, doing, reports, ran>>
    BY <1>12 DEF FinishTick
  <2>2. TodoFresh'
    BY <1>12, <2>1 DEF FinishTick, IInv, TodoFresh, NotRun, Settled, Stored,
                       Visible, TypeInv, TypeOK, commandVars
  <2>3. QED
    BY <2>1, <2>2, ResultsStayTrue DEF IInv, OwnRequest, RowsStored,
       ReplySettled, RowsFresh, RanSettled, ReportsLogged, Logged, AtMostOnce,
       NotRun, Settled, Stored, Visible, commandVars
<1>13. ASSUME NEW r \in Reqs, DiscardReply(r) PROVE IInv'
  <2>1. UNCHANGED <<commandVars, cur, mode, todo, doing, reports, ran>>
    BY <1>13 DEF DiscardReply, agentVars
  <2>2. \A d \in Devices : cur[d] # r
    BY <1>13, FleetAssumption DEF DiscardReply, IInv, OwnRequest
  <2>3. OwnRequest' /\ RowsFresh' /\ RowsStored' /\ ReplySettled'
    BY <1>13, <2>1, <2>2 DEF DiscardReply, FreeReq, Heartbeat, IInv, OwnRequest,
         RowsFresh, RowsStored, ReplySettled, NotRun, Stored, Settled, Visible,
         TypeInv, TypeOK, commandVars
  <2>4. QED
    BY <2>1, <2>3, ResultsStayTrue DEF IInv, TodoFresh, RanSettled, ReportsLogged,
       Logged, AtMostOnce, NotRun, Settled, Stored, Visible, commandVars
<1>14. ASSUME NEW r \in Reqs, DropHeartbeat(r) PROVE IInv'
  <2>1. UNCHANGED <<commandVars, todo, doing, reports, ran>>
    BY <1>14 DEF DropHeartbeat
  <2>2. \A d \in Devices : /\ cur'[d] = IF cur[d] = r THEN None ELSE cur[d]
                           /\ mode'[d] = IF cur[d] = r THEN "idle" ELSE mode[d]
    BY <1>14 DEF DropHeartbeat
  <2>3. OwnRequest' /\ RowsFresh' /\ RowsStored' /\ ReplySettled'
    BY <1>14, <2>1, <2>2 DEF DropHeartbeat, FreeReq, Heartbeat, IInv, OwnRequest,
         RowsFresh, RowsStored, ReplySettled, NotRun, Stored, Settled, Visible,
         TypeInv, TypeOK, commandVars
  <2>4. \A d \in Devices : mode[d] \in {"working", "reporting"} => cur[d] = None
    BY DEF TypeInv, Waiting
  <2>5. TodoFresh'
    BY <2>1, <2>2, <2>4, FleetAssumption DEF IInv, TodoFresh, NotRun, Settled,
         Stored, Visible, commandVars
  <2>6. QED
    BY <2>1, <2>3, <2>5, ResultsStayTrue DEF IInv, RanSettled, ReportsLogged,
       Logged, AtMostOnce, Settled, Stored, Visible, commandVars
<1>15. ASSUME NEW m \in reports, DropReport(m) PROVE IInv'
  <2>1. Quiet /\ UNCHANGED <<commandVars, ran>>
    BY <1>15 DEF DropReport, Quiet, agentVars
  <2>2. QED
    BY <2>1, QuietSteps, ResultsStayTrue DEF IInv
<1>16. ASSUME NEW d \in Devices,
              \/ Timeout(d)
              \/ AgentGone(d, "idle")
              \/ AgentGone(d, "off")
       PROVE  IInv'
  <2>1. UNCHANGED <<commandVars, req, reports, ran>>
    BY <1>16 DEF Timeout, AgentGone
  <2>2. \A b \in Devices : cur'[b] # None => cur'[b] = cur[b]
    BY <1>16 DEF Timeout, AgentGone, TypeInv, TypeOK
  <2>3. /\ \A b \in Devices : \A c \in todo'[b] : c \in todo[b] /\ mode'[b] = mode[b]
        /\ \A b \in Devices : doing'[b] # NoReport => doing'[b] = doing[b]
    BY <1>16 DEF Timeout, AgentGone, TypeInv, TypeOK, IInv, TodoFresh
  <2>4. OwnRequest' /\ RowsFresh'
    BY <2>1, <2>2 DEF IInv, OwnRequest, RowsFresh, NotRun
  <2>5. TodoFresh'
    BY <2>1, <2>3 DEF IInv, TodoFresh, NotRun, Settled, Stored, Visible, commandVars
  <2>6. ReportsLogged'
    BY <2>1, <2>3 DEF IInv, ReportsLogged, Logged
  <2>7. QED
    BY <2>1, <2>4, <2>5, <2>6, ResultsStayTrue DEF IInv, RowsStored, ReplySettled,
       RanSettled, AtMostOnce, Settled, Stored, Visible, commandVars
<1>b. ASSUME NEW d \in Devices, Logout(d) PROVE IInv'
  <2>1. Quiet /\ UNCHANGED <<commandVars, ran>>
    BY <1>b DEF Logout, Quiet
  <2>2. QED
    BY <2>1, QuietSteps, ResultsStayTrue DEF IInv
<1>17. CASE UNCHANGED vars
  <2>1. Quiet /\ UNCHANGED <<commandVars, ran>>
    BY <1>17 DEF vars, Quiet, agentVars
  <2>2. QED
    BY <2>1, QuietSteps, ResultsStayTrue DEF IInv
<1>18. QED
  BY <1>1, <1>2, <1>3, <1>4, <1>5, <1>6, <1>7, <1>8, <1>9, <1>10, <1>11,
     <1>a, <1>b, <1>12, <1>13, <1>14, <1>15, <1>16, <1>17
  DEF Next, AdminNext, ServerNext, AgentNext, FaultNext, ReportAnswered,
      ReportTimeout, AgentCrash, Logout, Reboot, WipeStop, PowerCycle, Booted

\* The strengthening holds in every reachable state.
LEMMA DeliveryInvariant == Spec => []IInv
<1>1. Init => IInv
  BY FleetAssumption
  DEF Init, IInv, OwnRequest, RowsStored, ReplySettled, RowsFresh, TodoFresh,
      RanSettled, ReportsLogged, AtMostOnce, ResultIsTrue, FreeReq, Heartbeat
<1>2. TypeInv /\ IInv /\ [Next]_vars => IInv'
  BY Inductive
<1>3. QED
  BY <1>1, <1>2, TypeInvariant, PTL DEF Spec

\* No device executes a command twice, however many heartbeats are abandoned
\* or lost and however often the agent restarts.
THEOREM ExecutesAtMostOnce == Spec => []AtMostOnce
BY DeliveryInvariant, PTL DEF IInv

\* A result in the commands table is one that a device it was meant for
\* obtained by executing the command.
THEOREM ResultsAreTrue == Spec => []ResultIsTrue
BY DeliveryInvariant, PTL DEF IInv
-----------------------------------------------------------------------------
\* An agent between two command loops that knows of the lock has locked the
\* session, and at most a logout has replaced it since.  SleepsLocked alone is
\* not inductive: an agent that gives up its heartbeat goes back to sleep as it
\* left.
LockInv == \A d \in Devices :
              mode[d] \in {"idle", "waiting"} /\ agentLocked[d]
                 => screen[d] \in {"locked", "fresh"}

\* The agents that sleep or wait, and know of the lock, were among those that
\* did before, and nobody opened their session.
NoLooser == \A d \in Devices :
               mode'[d] \in {"idle", "waiting"} /\ agentLocked'[d] =>
                  /\ mode[d] \in {"idle", "waiting"} /\ agentLocked[d]
                  /\ screen'[d] = screen[d]

\* Every step keeps the session locked for an agent that sleeps with the lock.
LEMMA LockStep == TypeInv /\ LockInv /\ [Next]_vars => LockInv'
<1> SUFFICES ASSUME TypeInv, LockInv, [Next]_vars PROVE LockInv'
  OBVIOUS
<1> USE FleetAssumption
<1>1. CASE UNCHANGED <<mode, agentLocked, screen>>
  BY <1>1 DEF LockInv
<1>2. CASE NoLooser
  BY <1>2 DEF LockInv, NoLooser
<1>3. ASSUME NEW d \in Devices, FinishTick(d) PROVE LockInv'
  BY <1>3 DEF FinishTick, LockInv, TypeInv, TypeOK
<1>4. ASSUME NEW d \in Devices, NEW r \in Reqs, StartTick(d, r) PROVE NoLooser
  BY <1>4 DEF StartTick, NoLooser, TypeInv, TypeOK
<1>5. ASSUME NEW d \in Devices,
             ReceiveReply(d) \/ ReportResult(d) \/ ReportOver(d)
      PROVE  NoLooser
  <2>0. TypeOK
    BY DEF TypeInv
  <2>1. CASE ReceiveReply(d)
    BY <2>0, <2>1 DEF ReceiveReply, NoLooser, TypeOK
  <2>2. CASE ReportResult(d)
    BY <2>0, <2>2 DEF ReportResult, NoLooser, TypeOK
  <2>3. CASE ReportOver(d)
    BY <2>0, <2>3 DEF ReportOver, NoLooser, TypeOK
  <2>4. QED
    BY <1>5, <2>1, <2>2, <2>3
<1>6. ASSUME NEW d \in Devices, NEW c \in Cmds, NEW ok \in BOOLEAN,
             ExecuteCommand(d, c, ok)
      PROVE  NoLooser
  BY <1>6 DEF ExecuteCommand, NoLooser, TypeInv, TypeOK
<1>7. ASSUME NEW d \in Devices, Timeout(d) PROVE NoLooser
  BY <1>7 DEF Timeout, NoLooser, TypeInv, TypeOK
<1>8. ASSUME NEW r \in Reqs, DropHeartbeat(r) PROVE NoLooser
  <2>1. \A d \in Devices : cur[d] = r => mode[d] = "waiting"
    BY DEF TypeInv, Waiting
  <2>2. QED
    BY <1>8, <2>1 DEF DropHeartbeat, NoLooser
<1>9. ASSUME NEW d \in Devices, NEW m \in {"idle", "off"}, AgentGone(d, m),
             \A b \in Devices : b # d => screen'[b] = screen[b]
      PROVE  NoLooser
  BY <1>9 DEF AgentGone, NoLooser, TypeInv, TypeOK
<1>10. ASSUME NEW d \in Devices,
              AgentCrash(d) \/ Reboot(d) \/ WipeStop(d) \/ PowerCycle(d)
       PROVE  NoLooser
  <2>1. AgentGone(d, "idle") \/ AgentGone(d, "off")
    BY <1>10 DEF AgentCrash, Reboot, WipeStop, PowerCycle, Booted
  <2>2. \A b \in Devices : b # d => screen'[b] = screen[b]
    BY <1>10 DEF AgentCrash, Reboot, WipeStop, PowerCycle, Booted, TypeInv, TypeOK
  <2>3. QED
    BY <2>1, <2>2, <1>9
<1>a. ASSUME NEW d \in Devices, Logout(d) PROVE LockInv'
  BY <1>a DEF Logout, LockInv, TypeInv, TypeOK
<1>11. ASSUME \/ \E c \in Cmds, t \in Targets, k \in Kinds : PostCommand(c, t, k)
              \/ \E c \in Cmds : QueueCommand(c) \/ AbortPost(c)
              \/ Second
              \/ \E m \in reports : CompleteCommand(m) \/ DropReport(m)
              \/ \E r \in Reqs : \/ ReadDevice(r) \/ SelectPending(r)
                                 \/ MarkAcknowledged(r) \/ DiscardReply(r)
              \/ UNCHANGED vars
       PROVE  UNCHANGED <<mode, agentLocked, screen>>
  BY <1>11 DEF PostCommand, QueueCommand, AbortPost, Second, CompleteCommand,
       DropReport, ReadDevice, SelectPending, MarkAcknowledged, DiscardReply,
       agentVars, vars
<1>12. QED
  BY <1>1, <1>2, <1>3, <1>4, <1>5, <1>6, <1>7, <1>8, <1>10, <1>a, <1>11
  DEF Next, AdminNext, ServerNext, AgentNext, FaultNext, ReportAnswered,
      ReportTimeout

\* An agent that knows its device is locked never sleeps with the session open,
\* unless it is the session that a logout has started since the last lock.
THEOREM SleepsBehindTheLock == Spec => []SleepsLocked
<1>1. Init => LockInv
  BY DEF Init, LockInv
<1>2. LockInv => SleepsLocked
  BY DEF LockInv, SleepsLocked
<1>3. QED
  BY <1>1, <1>2, LockStep, TypeInvariant, PTL DEF Spec

-----------------------------------------------------------------------------
(***************************************************************************)
(* Results are final.  A row for one device is executed at most once, and  *)
(* every report of it says what that run gave; the UPDATE of a heartbeat   *)
(* that its agent waits for finds rows which were not executed yet.  What  *)
(* remains is the UPDATE of an abandoned heartbeat.                        *)
(***************************************************************************)
ResultStands(c) ==
    \/ status'[c] = status[c]
    \/ \E r \in Reqs : /\ Abandoned(r) /\ c \in req[r].rows
                       /\ status'[c] = "acknowledged"

\* A result of a command for one device is what that device's only run gave.
LEMMA OneResult ==
  ASSUME TypeInv, IInv, NEW c \in Cmds, NEW d \in Devices, target[c] = d,
         status[c] \in {"completed", "failed"},
         NEW i \in DOMAIN ran[d], ran[d][i].cmd = c
  PROVE  ran[d][i] = [cmd |-> c, ok |-> status[c] = "completed"]
<1>1. PICK b \in Devices : /\ Visible(c, b)
                           /\ \E j \in DOMAIN ran[b] :
                                 ran[b][j] = [cmd |-> c,
                                              ok |-> status[c] = "completed"]
  BY DEF IInv, ResultIsTrue
<1>2. b = d
  BY <1>1, FleetAssumption DEF Visible
<1>3. PICK j \in DOMAIN ran[d] :
              ran[d][j] = [cmd |-> c, ok |-> status[c] = "completed"]
  BY <1>1, <1>2
<1>4. ran[d][j].cmd = c
  BY <1>3
<1>5. i = j
  BY <1>4 DEF IInv, AtMostOnce
<1>6. QED
  BY <1>3, <1>5

\* A step that changes the result of a row for one device is the UPDATE of an
\* abandoned heartbeat.
LEMMA ResultStep ==
  ASSUME TypeInv, IInv, [Next]_vars,
         NEW c \in Cmds, target[c] \in Devices,
         status[c] \in {"completed", "failed"}
  PROVE  ResultStands(c)
<1>1. CASE status'[c] = status[c]
  BY <1>1 DEF ResultStands
<1>2. ASSUME NEW b \in Cmds, NEW t \in Targets, NEW k \in Kinds, PostCommand(b, t, k)
      PROVE  ResultStands(c)
  BY <1>2 DEF PostCommand, ResultStands, TypeInv, TypeOK
<1>3. ASSUME NEW b \in Cmds, QueueCommand(b) \/ AbortPost(b) PROVE ResultStands(c)
  BY <1>3 DEF QueueCommand, AbortPost, ResultStands, TypeInv, TypeOK
<1>4. ASSUME NEW r \in Reqs, MarkAcknowledged(r), c \in req[r].rows
      PROVE  ResultStands(c)
  <2>1. PICK d \in Devices : d = req[r].dev
    BY <1>4 DEF MarkAcknowledged, TypeInv, Owned
  <2>2. Stored(c) /\ target[c] = d
    BY <1>4, <2>1, FleetAssumption DEF MarkAcknowledged, IInv, RowsStored, Visible
  <2>3. \E i \in DOMAIN ran[d] : ran[d][i].cmd = c
    <3>1. PICK b \in Devices : /\ Visible(c, b)
                               /\ \E i \in DOMAIN ran[b] :
                                     ran[b][i] = [cmd |-> c,
                                                  ok |-> status[c] = "completed"]
      BY <1>4 DEF IInv, ResultIsTrue
    <3>2. b = d
      BY <2>1, <2>2, <3>1, FleetAssumption DEF Visible
    <3>3. QED
      BY <3>1, <3>2
  <2>4. cur[d] # r
    <3> SUFFICES ASSUME cur[d] = r PROVE FALSE
      OBVIOUS
    <3>1. NotRun(c, d)
      BY <1>4, FleetAssumption DEF MarkAcknowledged, IInv, RowsFresh
    <3>2. QED
      BY <2>3, <3>1 DEF NotRun
  <2>5. Abandoned(r)
    BY <1>4, <2>1, <2>4 DEF MarkAcknowledged, Abandoned
  <2>6. status'[c] = "acknowledged"
    BY <1>4 DEF MarkAcknowledged
  <2>7. QED
    BY <1>4, <2>5, <2>6 DEF ResultStands
<1>5. ASSUME NEW m \in reports, CompleteCommand(m), m.cmd = c, Visible(c, m.dev)
      PROVE  ResultStands(c)
  <2>1. PICK d \in Devices : d = m.dev /\ target[c] = d
    BY <1>5, FleetAssumption DEF TypeInv, TypeOK, Reports, Visible
  <2>2. m.ok \in BOOLEAN
    BY DEF TypeInv, TypeOK, Reports
  <2>3. PICK i \in DOMAIN ran[d] : ran[d][i] = [cmd |-> c, ok |-> m.ok]
    BY <1>5, <2>1 DEF IInv, ReportsLogged, Logged
  <2>4. ran[d][i] = [cmd |-> c, ok |-> status[c] = "completed"]
    BY <2>1, <2>3, OneResult
  <2>5. m.ok = (status[c] = "completed")
    BY <2>3, <2>4
  <2>6. status'[c] = IF m.ok THEN "completed" ELSE "failed"
    BY <1>5 DEF CompleteCommand, TypeInv, TypeOK
  <2>7. status'[c] = status[c]
    BY <2>5, <2>6
  <2>8. QED
    BY <2>7 DEF ResultStands
<1>6. \/ status'[c] = status[c]
      \/ \E b \in Cmds, t \in Targets, k \in Kinds : PostCommand(b, t, k)
      \/ \E b \in Cmds : QueueCommand(b) \/ AbortPost(b)
      \/ \E r \in Reqs : MarkAcknowledged(r) /\ c \in req[r].rows
      \/ \E m \in reports : CompleteCommand(m) /\ m.cmd = c /\ Visible(c, m.dev)
  <2>1. ASSUME NEW r \in Reqs, MarkAcknowledged(r), c \notin req[r].rows
        PROVE  status'[c] = status[c]
    BY <2>1 DEF MarkAcknowledged
  <2>2. ASSUME NEW m \in reports, CompleteCommand(m),
               ~(m.cmd = c /\ Visible(c, m.dev))
        PROVE  status'[c] = status[c]
    BY <2>2 DEF CompleteCommand, TypeInv, TypeOK
  <2>3. CASE UNCHANGED commandVars
    BY <2>3 DEF commandVars
  <2>4. QED
    BY <2>1, <2>2, <2>3
    DEF Next, AdminNext, ServerNext, AgentNext, FaultNext, vars, Second,
        ReadDevice, SelectPending, StartTick, ReceiveReply, Timeout, DiscardReply,
        ExecuteCommand, ReportResult, ReportAnswered, ReportTimeout, ReportOver,
        FinishTick, DropHeartbeat, DropReport, AgentCrash, Logout, Reboot, WipeStop,
        PowerCycle, Booted, AgentGone
<1>7. QED
  BY <1>1, <1>2, <1>3, <1>4, <1>5, <1>6

\* The result of a command for one device is never replaced by another result,
\* and is taken back only by the UPDATE of a heartbeat that its agent has given
\* up: CompleteCommand looks at no status, but never has two answers to choose
\* from.
THEOREM ResultsAreFinal == Spec => ResultsStand
<1>1. TypeInv /\ IInv /\ [Next]_vars
         => [\A c \in Cmds :
                status[c] \in {"completed", "failed"} /\ target[c] \in Devices
                   => ResultStands(c)]_vars
  BY ResultStep
<1>2. [\A c \in Cmds :
          status[c] \in {"completed", "failed"} /\ target[c] \in Devices
             => ResultStands(c)]_vars
      => [\A c \in Cmds :
             /\ status[c] \in {"completed", "failed"} /\ target[c] \in Devices
             /\ status'[c] # status[c]
             => \E r \in Reqs : /\ Abandoned(r) /\ c \in req[r].rows
                                /\ status'[c] = "acknowledged"]_vars
  BY DEF ResultStands
<1>3. QED
  BY <1>1, <1>2, TypeInvariant, DeliveryInvariant, PTL DEF Spec, ResultsStand
-----------------------------------------------------------------------------
(***************************************************************************)
(* Without failures nothing that was acknowledged is forgotten.  What the  *)
(* server hands over is followed from the UPDATE to the result; a request  *)
(* without an agent that waits for it, and an agent that is about to end,  *)
(* are the work of a reboot or a wipe that the device has executed.        *)
(***************************************************************************)
Endings == \A d \in Devices : ending[d] \cap {"reboot", "wipe"} # {} => EndedItself(d)

Waited ==
    \A r \in Reqs : req[r].phase # "free" =>
        cur[req[r].dev] = r \/ EndedItself(req[r].dev)

ForgetInv ==
    /\ faults \in Nat /\ faults <= MaxFaults
    /\ faults = MaxFaults => Endings /\ Waited
    /\ NothingForgotten

\* The steps of everybody but the failures.
Works == AdminNext \/ ServerNext \/ AgentNext \/ UNCHANGED vars

\* A history only grows, and the kind of a command in it does not change.
LEMMA EndedStays ==
  ASSUME TypeInv, IInv, [Next]_vars, NEW d \in Devices, EndedItself(d)
  PROVE  EndedItself(d)'
<1>1. PICK i \in DOMAIN ran[d] : kind[ran[d][i].cmd] \in {"reboot", "wipe"}
  BY DEF EndedItself
<1> DEFINE c == ran[d][i].cmd
<1>2. c \in Cmds /\ Stored(c)
  BY Members DEF IInv, RanSettled, Settled
<1> HIDE DEF c
<1>3. kind'[c] = kind[c]
  <2>1. ASSUME NEW b \in Cmds, NEW t \in Targets, NEW k \in Kinds, PostCommand(b, t, k)
        PROVE  kind'[c] = kind[c]
    BY <1>2, <2>1 DEF PostCommand, Stored, TypeInv, TypeOK
  <2>2. ASSUME NEW b \in Cmds, AbortPost(b) PROVE kind'[c] = kind[c]
    BY <1>2, <2>2 DEF AbortPost, Stored, TypeInv, TypeOK
  <2>3. CASE UNCHANGED kind
    BY <2>3
  <2>4. QED
    BY <2>1, <2>2, <2>3
    DEF Next, AdminNext, ServerNext, AgentNext, FaultNext, vars, commandVars,
        QueueCommand, Second, ReadDevice, SelectPending, MarkAcknowledged,
        CompleteCommand, StartTick, ReceiveReply, Timeout, DiscardReply,
        ExecuteCommand, ReportResult, ReportAnswered, ReportTimeout, ReportOver,
        FinishTick, DropHeartbeat, DropReport, AgentCrash, Logout, Reboot, WipeStop,
        PowerCycle, Booted, AgentGone
<1>4. i \in DOMAIN ran'[d] /\ ran'[d][i] = ran[d][i]
  <2>1. ASSUME NEW b \in Devices, NEW a \in Cmds, NEW ok \in BOOLEAN,
               ExecuteCommand(b, a, ok)
        PROVE  i \in DOMAIN ran'[d] /\ ran'[d][i] = ran[d][i]
    <3>1. [cmd |-> a, ok |-> ok] \in Runs
      BY DEF Runs
    <3>2. ran[d] \in Seq(Runs)
      BY DEF TypeInv, TypeOK
    <3>3. ran'[d] = ran[d] \/ ran'[d] = Append(ran[d], [cmd |-> a, ok |-> ok])
      BY <2>1 DEF ExecuteCommand, TypeInv, TypeOK
    <3>4. QED
      BY <1>1, <3>1, <3>2, <3>3, AppendFacts
  <2>2. CASE UNCHANGED ran
    BY <1>1, <2>2
  <2>3. QED
    BY <2>1, <2>2
    DEF Next, AdminNext, ServerNext, AgentNext, FaultNext, vars, agentVars,
        PostCommand, QueueCommand, AbortPost, Second, ReadDevice, SelectPending,
        MarkAcknowledged, CompleteCommand, StartTick, ReceiveReply, Timeout,
        DiscardReply, ReportResult, ReportAnswered, ReportTimeout, ReportOver,
        FinishTick, DropHeartbeat, DropReport, AgentCrash, Logout, Reboot, WipeStop,
        PowerCycle, Booted, AgentGone
<1>5. kind'[ran'[d][i].cmd] \in {"reboot", "wipe"}
  BY <1>1, <1>3, <1>4 DEF c
<1>6. QED
  BY <1>4, <1>5 DEF EndedItself

\* A device that executes a reboot or a wipe has ended itself.
LEMMA ExecuteEnds ==
  ASSUME TypeInv, NEW d \in Devices, NEW c \in Cmds, NEW ok \in BOOLEAN,
         ExecuteCommand(d, c, ok), kind[c] \in {"reboot", "wipe"}
  PROVE  EndedItself(d)'
<1>1. [cmd |-> c, ok |-> ok] \in Runs /\ ran[d] \in Seq(Runs)
  BY DEF Runs, TypeInv, TypeOK
<1>2. ran'[d] = Append(ran[d], [cmd |-> c, ok |-> ok]) /\ kind' = kind
  BY DEF ExecuteCommand, TypeInv, TypeOK, commandVars
<1>3. /\ Len(ran[d]) + 1 \in DOMAIN ran'[d]
      /\ ran'[d][Len(ran[d]) + 1] = [cmd |-> c, ok |-> ok]
  BY <1>1, <1>2, AppendFacts
<1>4. QED
  BY <1>2, <1>3 DEF EndedItself

\* A scheduled end is the work of an executed command.
LEMMA EndingsStep ==
  ASSUME TypeInv, IInv, Endings, Works
  PROVE  Endings'
<1>1. \A d \in Devices : EndedItself(d) => EndedItself(d)'
  BY EndedStays DEF Works, Next
<1>2. CASE UNCHANGED ending
  BY <1>1, <1>2 DEF Endings
<1>3. ASSUME NEW d \in Devices, NEW c \in Cmds, NEW ok \in BOOLEAN,
             ExecuteCommand(d, c, ok)
      PROVE  Endings'
  <2>1. ending' = [ending EXCEPT ![d] = @ \cup ({kind[c]} \cap Scheduled)]
    BY <1>3 DEF ExecuteCommand
  <2>2. \A b \in Devices : b # d => ending'[b] = ending[b]
    BY <2>1 DEF TypeInv, TypeOK
  <2>3. \/ ending'[d] \cap {"reboot", "wipe"} = ending[d] \cap {"reboot", "wipe"}
        \/ kind[c] \in {"reboot", "wipe"}
    BY <2>1 DEF TypeInv, TypeOK
  <2>4. QED
    BY <1>1, <1>3, <2>2, <2>3, ExecuteEnds DEF Endings
<1>4. ASSUME NEW d \in Devices, Reboot(d) \/ WipeStop(d) PROVE Endings'
  <2>1. /\ \A b \in Devices : b # d => ending'[b] = ending[b]
        /\ ending[d] \cap {"reboot", "wipe"} # {}
    BY <1>4 DEF Reboot, WipeStop, Booted, ForgetEnding, TypeInv, TypeOK
  <2>2. QED
    BY <1>1, <2>1 DEF Endings
<1>a. ASSUME NEW d \in Devices, Logout(d) PROVE Endings'
  <2>1. \A b \in Devices : ending'[b] \subseteq ending[b]
    BY <1>a DEF Logout, TypeInv, TypeOK
  <2>2. QED
    BY <1>1, <2>1 DEF Endings
<1>5. QED
  BY <1>2, <1>3, <1>4, <1>a
  DEF Works, AdminNext, ServerNext, AgentNext, vars, agentVars,
      PostCommand, QueueCommand, Second, ReadDevice, SelectPending,
      MarkAcknowledged, CompleteCommand, StartTick, ReceiveReply,
      DiscardReply, ReportResult, ReportAnswered, ReportOver, FinishTick

\* Only a device that ended itself leaves a request behind.
LEMMA WaitedStep ==
  ASSUME TypeInv, IInv, Endings, Waited, Works
  PROVE  Waited'
<1>1. \A d \in Devices : EndedItself(d) => EndedItself(d)'
  BY EndedStays DEF Works, Next
<1>2. CASE UNCHANGED <<req, cur>>
  BY <1>1, <1>2 DEF Waited, TypeInv, Owned
<1>3. ASSUME NEW r \in Reqs, ReadDevice(r) \/ SelectPending(r) \/ MarkAcknowledged(r)
      PROVE  Waited'
  <2>1. /\ \A q \in Reqs : \/ req[q].phase # "free" /\ req'[q].dev = req[q].dev
                           \/ req'[q] = req[q]
        /\ UNCHANGED cur
    BY <1>3 DEF ReadDevice, SelectPending, MarkAcknowledged, Answer, Heartbeat,
                TypeInv, TypeOK, agentVars
  <2>2. QED
    BY <1>1, <2>1 DEF Waited, TypeInv, Owned
<1>4. ASSUME NEW d \in Devices, NEW r \in Reqs, StartTick(d, r) PROVE Waited'
  <2>1. /\ req'[r].dev = d /\ cur'[d] = r
        /\ \A q \in Reqs : q # r => req'[q] = req[q]
        /\ \A b \in Devices : b # d => cur'[b] = cur[b]
    BY <1>4 DEF StartTick, Heartbeat, TypeInv, TypeOK
  <2>2. cur[d] = None /\ None \notin Reqs
    BY <1>4, FleetAssumption DEF StartTick, TypeInv, Waiting
  <2>3. QED
    BY <1>1, <2>1, <2>2 DEF Waited, TypeInv, Owned
<1>5. ASSUME NEW d \in Devices, ReceiveReply(d) PROVE Waited'
  <2>1. /\ cur[d] \in Reqs
        /\ req'[cur[d]].phase = "free"
        /\ \A q \in Reqs : q # cur[d] => req'[q] = req[q]
        /\ \A b \in Devices : b # d => cur'[b] = cur[b]
    BY <1>5, Members DEF ReceiveReply, FreeReq, Heartbeat, TypeInv, TypeOK, Waiting
  <2>2. QED
    BY <1>1, <2>1 DEF Waited, TypeInv, Owned
<1>6. ASSUME NEW r \in Reqs, DiscardReply(r) PROVE Waited'
  <2>1. /\ req'[r].phase = "free"
        /\ \A q \in Reqs : q # r => req'[q] = req[q]
        /\ UNCHANGED cur
    BY <1>6 DEF DiscardReply, FreeReq, Heartbeat, TypeInv, TypeOK, agentVars
  <2>2. QED
    BY <1>1, <2>1 DEF Waited, TypeInv, Owned
<1>7. ASSUME NEW d \in Devices, Reboot(d) \/ WipeStop(d) PROVE Waited'
  <2>1. /\ UNCHANGED req
        /\ \A b \in Devices : b # d => cur'[b] = cur[b]
        /\ ending[d] \cap {"reboot", "wipe"} # {}
    BY <1>7 DEF Reboot, WipeStop, Booted, AgentGone, TypeInv, TypeOK
  <2>2. EndedItself(d)'
    BY <1>1, <2>1 DEF Endings
  <2>3. QED
    BY <1>1, <2>1, <2>2 DEF Waited, TypeInv, Owned
<1>8. QED
  BY <1>2, <1>3, <1>4, <1>5, <1>6, <1>7
  DEF Works, AdminNext, ServerNext, AgentNext, vars, agentVars, PostCommand,
      QueueCommand, Second, CompleteCommand, ExecuteCommand, ReportResult,
      ReportAnswered, ReportOver, FinishTick, Logout

\* What is under way for a device stays so until its result is in the table, or
\* until the device ends itself.
LEMMA UnderWayStep ==
  ASSUME TypeInv, IInv, Endings, Works,
         NEW c \in Cmds, NEW d \in Devices, Visible(c, d), UnderWay(c, d),
         status'[c] = "acknowledged"
  PROVE  UnderWay(c, d)' \/ EndedItself(d)'
<1>1. EndedItself(d) => EndedItself(d)'
  BY EndedStays DEF Works, Next
<1>2. CASE /\ UNCHANGED <<req, cur, todo, mode, doing>>
           /\ reports \subseteq reports'
  BY <1>2 DEF UnderWay
<1>3. ASSUME NEW r \in Reqs, ReadDevice(r) \/ SelectPending(r) \/ MarkAcknowledged(r)
      PROVE  UnderWay(c, d)'
  <2>1. /\ \A q \in Reqs : req[q].phase = "reply" => req'[q] = req[q]
        /\ UNCHANGED <<cur, todo, mode, doing, reports>>
    BY <1>3 DEF ReadDevice, SelectPending, MarkAcknowledged, TypeInv, TypeOK, agentVars
  <2>2. QED
    BY <2>1 DEF UnderWay
<1>4. ASSUME NEW m \in reports, CompleteCommand(m) PROVE UnderWay(c, d)'
  <2>1. ~(m.dev = d /\ m.cmd = c)
    BY <1>4 DEF CompleteCommand, TypeInv, TypeOK
  <2>2. UNCHANGED <<req, cur, todo, mode, doing>> /\ reports' = reports \ {m}
    BY <1>4 DEF CompleteCommand, agentVars
  <2>3. QED
    BY <2>1, <2>2 DEF UnderWay
<1>5. ASSUME NEW b \in Devices, NEW r \in Reqs, StartTick(b, r) PROVE UnderWay(c, d)'
  <2>1. /\ req[r].phase = "free" /\ mode[b] = "idle" /\ cur[b] = None
        /\ \A q \in Reqs : q # r => req'[q] = req[q]
        /\ \A a \in Devices : a # b => cur'[a] = cur[a] /\ mode'[a] = mode[a]
        /\ UNCHANGED <<todo, doing, reports>>
    BY <1>5 DEF StartTick, TypeInv, TypeOK, Waiting
  <2>2. QED
    BY <2>1, FleetAssumption DEF UnderWay
<1>6. ASSUME NEW b \in Devices, ReceiveReply(b) PROVE UnderWay(c, d)'
  <2>1. /\ mode[b] = "waiting" /\ mode'[b] = "working"
        /\ todo'[b] = req[cur[b]].rows
        /\ \A q \in Reqs : q # cur[b] => req'[q] = req[q]
        /\ \A a \in Devices : a # b =>
              cur'[a] = cur[a] /\ mode'[a] = mode[a] /\ todo'[a] = todo[a]
        /\ UNCHANGED <<doing, reports>>
    BY <1>6 DEF ReceiveReply, TypeInv, TypeOK
  <2>2. cur[b] \in Reqs /\ req[cur[b]].dev = b
    BY <2>1, Members DEF TypeInv, Waiting, IInv, OwnRequest
  <2>3. CASE d = b
    <3>1. c \notin todo[b]
      BY <2>1 DEF IInv, TodoFresh
    <3>2. QED
      BY <2>1, <2>3, <3>1 DEF UnderWay
  <2>4. CASE d # b
    <3>1. cur[d] \in Reqs => req[cur[d]].dev = d
      BY FleetAssumption DEF IInv, OwnRequest
    <3>2. QED
      BY <2>1, <2>2, <2>4, <3>1 DEF UnderWay
  <2>5. QED
    BY <2>3, <2>4
<1>7. ASSUME NEW r \in Reqs, DiscardReply(r) PROVE UnderWay(c, d)'
  <2>1. /\ cur[req[r].dev] # r
        /\ \A q \in Reqs : q # r => req'[q] = req[q]
        /\ UNCHANGED <<cur, todo, mode, doing, reports>>
    BY <1>7 DEF DiscardReply, TypeInv, TypeOK, agentVars
  <2>2. cur[d] \in Reqs => req[cur[d]].dev = d
    BY FleetAssumption DEF IInv, OwnRequest
  <2>3. QED
    BY <2>1, <2>2 DEF UnderWay
<1>8. ASSUME NEW b \in Devices, NEW a \in Cmds, NEW ok \in BOOLEAN,
             ExecuteCommand(b, a, ok)
      PROVE  UnderWay(c, d)'
  <2>1. /\ mode[b] = "working" /\ doing[b] = NoReport
        /\ doing'[b].cmd = a
        /\ todo'[b] = todo[b] \ {a}
        /\ \A e \in Devices : e # b => doing'[e] = doing[e] /\ todo'[e] = todo[e]
        /\ UNCHANGED <<req, cur, mode, reports>>
    BY <1>8 DEF ExecuteCommand, TypeInv, TypeOK
  <2>2. doing[b].cmd # c
    BY <2>1, FleetAssumption DEF NoReport
  <2>3. QED
    BY <2>1, <2>2 DEF UnderWay
<1>9. ASSUME NEW b \in Devices, ReportResult(b) PROVE UnderWay(c, d)'
  <2>1. /\ reports' = reports \cup {ReportOf(b)}
        /\ \A a \in Devices : a # b => mode'[a] = mode[a]
        /\ UNCHANGED <<req, cur, todo, doing>>
    BY <1>9 DEF ReportResult, TypeInv, TypeOK
  <2>2. ReportOf(b).dev = b /\ ReportOf(b).cmd = doing[b].cmd
    BY DEF ReportOf
  <2>3. QED
    BY <2>1, <2>2 DEF UnderWay
<1>10. ASSUME NEW b \in Devices, ReportAnswered(b) \/ FinishTick(b)
       PROVE  UnderWay(c, d)'
  <2>1. /\ \A a \in Devices : a # b => mode'[a] = mode[a] /\ doing'[a] = doing[a]
        /\ mode[b] = "working" => doing[b] = NoReport
        /\ UNCHANGED <<req, cur, todo, reports>>
    BY <1>10 DEF ReportAnswered, ReportOver, FinishTick, TypeInv, TypeOK
  <2>2. NoReport.cmd # c
    BY FleetAssumption DEF NoReport
  <2>3. QED
    BY <2>1, <2>2 DEF UnderWay
<1>11. ASSUME NEW b \in Devices, Reboot(b) \/ WipeStop(b)
       PROVE  UnderWay(c, d)' \/ EndedItself(d)'
  <2>1. /\ ending[b] \cap {"reboot", "wipe"} # {}
        /\ \A a \in Devices : a # b => /\ mode'[a] = mode[a] /\ doing'[a] = doing[a]
                                       /\ cur'[a] = cur[a] /\ todo'[a] = todo[a]
        /\ UNCHANGED <<req, reports>>
    BY <1>11 DEF Reboot, WipeStop, Booted, AgentGone, TypeInv, TypeOK
  <2>2. CASE d = b
    BY <1>1, <2>1, <2>2 DEF Endings
  <2>3. CASE d # b
    BY <2>1, <2>3 DEF UnderWay
  <2>4. QED
    BY <2>2, <2>3
<1>12. QED
  BY <1>2, <1>3, <1>4, <1>5, <1>6, <1>7, <1>8, <1>9, <1>10, <1>11
  DEF Works, AdminNext, ServerNext, AgentNext, vars, agentVars, PostCommand,
      QueueCommand, Second, Logout

\* Every acknowledged row is accounted for after a step that is no failure: it
\* was before, or it is in the answer that acknowledged it.
LEMMA AccountedStep ==
  ASSUME TypeInv, IInv, Endings, Waited, Works, faults = MaxFaults,
         NothingForgotten, NEW c \in Cmds, status'[c] = "acknowledged"
  PROVE  \E d \in Devices :
            Visible(c, d)' /\ (UnderWay(c, d)' \/ EndedItself(d)')
<1>1. /\ \A d \in Devices : EndedItself(d) => EndedItself(d)'
      /\ Stored(c) => target'[c] = target[c]
  BY EndedStays, RowsAreStable DEF Works, Next
<1>2. CASE status[c] = "acknowledged"
  <2>1. PICK d \in Devices : Visible(c, d) /\ (UnderWay(c, d) \/ EndedItself(d))
    BY <1>2 DEF NothingForgotten
  <2>2. Visible(c, d)'
    BY <1>1, <1>2, <2>1 DEF Visible, Stored
  <2>3. QED
    BY <1>1, <2>1, <2>2, UnderWayStep
<1>3. ASSUME NEW r \in Reqs, MarkAcknowledged(r), c \in req[r].rows
      PROVE  \E d \in Devices :
                Visible(c, d)' /\ (UnderWay(c, d)' \/ EndedItself(d)')
  <2>1. PICK d \in Devices : d = req[r].dev /\ (cur[d] = r \/ EndedItself(d))
    BY <1>3 DEF MarkAcknowledged, TypeInv, Owned, Waited
  <2>2. Visible(c, d)'
    BY <1>1, <1>3, <2>1 DEF MarkAcknowledged, IInv, RowsStored, Visible
  <2>3. CASE cur[d] = r
    <3>1. req'[r] = Answer(req[r]) /\ cur' = cur
      BY <1>3 DEF MarkAcknowledged, TypeInv, TypeOK, agentVars
    <3>2. req'[r].phase = "reply" /\ c \in req'[r].rows
      BY <1>3, <3>1 DEF Answer, Heartbeat
    <3>3. UnderWay(c, d)'
      BY <2>3, <3>1, <3>2 DEF UnderWay
    <3>4. QED
      BY <2>2, <3>3
  <2>4. QED
    BY <1>1, <2>1, <2>2, <2>3
<1>4. status[c] = "acknowledged" \/ \E r \in Reqs : MarkAcknowledged(r) /\ c \in req[r].rows
  <2>1. ASSUME NEW r \in Reqs, MarkAcknowledged(r), c \notin req[r].rows
        PROVE  status'[c] = status[c]
    BY <2>1 DEF MarkAcknowledged
  <2>2. ASSUME NEW b \in Cmds, NEW t \in Targets, NEW k \in Kinds, PostCommand(b, t, k)
        PROVE  status[c] = "acknowledged"
    BY <2>2 DEF PostCommand, TypeInv, TypeOK
  <2>3. ASSUME NEW b \in Cmds, QueueCommand(b) PROVE status[c] = "acknowledged"
    BY <2>3 DEF QueueCommand, TypeInv, TypeOK
  <2>4. ASSUME NEW m \in reports, CompleteCommand(m) PROVE status[c] = "acknowledged"
    BY <2>4 DEF CompleteCommand, TypeInv, TypeOK, Reports
  <2>5. CASE UNCHANGED status
    BY <2>5
  <2>6. QED
    BY <2>1, <2>2, <2>3, <2>4, <2>5
    DEF Works, AdminNext, ServerNext, AgentNext, vars, commandVars, Second,
        ReadDevice, SelectPending, StartTick, ReceiveReply, DiscardReply,
        ExecuteCommand, ReportResult, ReportAnswered, ReportOver, FinishTick,
        Logout, Reboot, WipeStop, Booted, AgentGone
<1>5. QED
  BY <1>2, <1>3, <1>4

\* A failure uses up one that is allowed, so that the promise no longer binds.
LEMMA FaultsCount ==
  ASSUME TypeInv, ForgetInv, [Next]_vars
  PROVE  /\ faults' \in Nat /\ faults' <= MaxFaults
         /\ faults' = MaxFaults => faults = MaxFaults /\ Works
<1>1. CASE FaultNext
  <2>1. faults > 0 /\ faults' = faults - 1
    BY <1>1 DEF FaultNext, AbortPost, DropHeartbeat, DropReport, Timeout,
                ReportTimeout, AgentCrash, PowerCycle, Fault
  <2>2. QED
    BY <2>1, FleetAssumption DEF ForgetInv
<1>2. CASE Works
  <2>1. faults' = faults
    BY <1>2 DEF Works, AdminNext, ServerNext, AgentNext, vars, PostCommand,
       QueueCommand, Second, ReadDevice, SelectPending, MarkAcknowledged,
       CompleteCommand, StartTick, ReceiveReply, DiscardReply, ExecuteCommand,
       ReportResult, ReportAnswered, FinishTick, Logout, Reboot, WipeStop
  <2>2. QED
    BY <1>2, <2>1 DEF ForgetInv
<1>3. QED
  BY <1>1, <1>2 DEF Works, Next

\* Unless something fails, a command that the server has marked as handed over
\* is still on its way to a result, or its device rebooted or was wiped on an
\* earlier command: only what such a batch takes with it is lost.
THEOREM NothingIsForgotten == Spec => []NothingForgotten
<1>1. Init => ForgetInv
  BY FleetAssumption
  DEF Init, ForgetInv, Endings, Waited, NothingForgotten, FreeReq, Heartbeat
<1>2. TypeInv /\ IInv /\ ForgetInv /\ [Next]_vars => ForgetInv'
  <2> SUFFICES ASSUME TypeInv, IInv, ForgetInv, [Next]_vars PROVE ForgetInv'
    OBVIOUS
  <2>1. /\ faults' \in Nat /\ faults' <= MaxFaults
        /\ faults' = MaxFaults => faults = MaxFaults /\ Works
    BY FaultsCount
  <2>2. faults' = MaxFaults => Endings' /\ Waited'
    BY <2>1, EndingsStep, WaitedStep DEF ForgetInv
  <2>3. NothingForgotten'
    <3> SUFFICES ASSUME faults' = MaxFaults, NEW c \in Cmds,
                        status'[c] = "acknowledged"
                 PROVE  \E d \in Devices :
                           Visible(c, d)' /\ (UnderWay(c, d)' \/ EndedItself(d)')
      BY DEF NothingForgotten
    <3>1. QED
      BY <2>1, AccountedStep DEF ForgetInv
  <2>4. QED
    BY <2>1, <2>2, <2>3 DEF ForgetInv
<1>3. QED
  BY <1>1, <1>2, TypeInvariant, DeliveryInvariant, PTL DEF Spec, ForgetInv
=============================================================================
