------------------------ MODULE FleetDelivery_proofs ------------------------
(***************************************************************************)
(* FleetCommands implements CommandDelivery.  At-most-once execution is    *)
(* inherited from FleetCommands_proofs; the rest is the creation order.    *)
(*                                                                         *)
(* The argument: a SELECT returns every pending command of the device, so  *)
(* what it leaves out is queued later and is not older; a device waits     *)
(* from its SELECT until it has the rows, and runs them oldest first.      *)
(***************************************************************************)
EXTENDS FleetCommands_proofs, SequenceTheorems

\* A row is never dated in the future.
CreatedPast == \A c \in Cmds : Stored(c) => created[c] <= now

\* No command older than one the device executed is still pending ...
PendingOrder ==
    \A d \in Devices : \A i \in DOMAIN ran[d] : \A c \in Cmds :
        status[c] = "pending" /\ Visible(c, d) =>
            created[ran[d][i].cmd] <= created[c]

\* ... or held by the handler the device waits for ...
RowsOrder ==
    \A d \in Devices :
        cur[d] # None /\ req[cur[d]].phase \in {"mark", "reply"} =>
            \A i \in DOMAIN ran[d] : \A c \in req[cur[d]].rows :
                created[ran[d][i].cmd] <= created[c]

\* ... or still to be executed.
TodoOrder ==
    \A d \in Devices : \A i \in DOMAIN ran[d] : \A c \in todo[d] :
        created[ran[d][i].cmd] <= created[c]

\* What a handler holds is not younger than what it left pending,
RowsPending ==
    \A d \in Devices :
        cur[d] # None /\ req[cur[d]].phase \in {"mark", "reply"} =>
            \A c \in req[cur[d]].rows : \A x \in Cmds \ req[cur[d]].rows :
                status[x] = "pending" /\ Visible(x, d) =>
                    created[c] <= created[x]

\* nor is what the device is about to execute.
TodoPending ==
    \A d \in Devices : \A c \in todo[d] : \A x \in Cmds :
        status[x] = "pending" /\ Visible(x, d) => created[c] <= created[x]

OrderInv == /\ CreatedPast
            /\ PendingOrder
            /\ RowsOrder
            /\ TodoOrder
            /\ RowsPending
            /\ TodoPending

-----------------------------------------------------------------------------
\* A step that queues nothing: no row becomes pending or changes its date.
Calm == /\ created' = created
        /\ now' \in Nat /\ now <= now'
        /\ \A c \in Cmds : /\ Stored(c)' => Stored(c)
                           /\ status'[c] = "pending" =>
                                 status[c] = "pending" /\ target'[c] = target[c]

\* A step after which the agents hold no more than before, and executed
\* nothing more.
Fewer == /\ ran' = ran
         /\ \A d \in Devices : todo'[d] \subseteq todo[d]
         /\ \A d \in Devices :
               cur'[d] # None /\ req'[cur'[d]].phase \in {"mark", "reply"} =>
                  /\ cur'[d] = cur[d]
                  /\ req[cur[d]].phase \in {"mark", "reply"}
                  /\ req'[cur[d]].rows = req[cur[d]].rows

\* A calm step that gives the agents nothing keeps the order.
LEMMA QuietOrder ==
  ASSUME TypeInv, OrderInv, Calm, Fewer
  PROVE  OrderInv'
<1>1. CreatedPast'
  BY DEF OrderInv, CreatedPast, Calm, TypeInv, TypeOK
<1>2. PendingOrder'
  BY DEF OrderInv, PendingOrder, Calm, Fewer, Visible
<1>3. RowsOrder'
  BY DEF OrderInv, RowsOrder, Calm, Fewer
<1>4. TodoOrder' /\ TodoPending'
  BY DEF OrderInv, TodoOrder, TodoPending, Calm, Fewer, Visible
<1>5. RowsPending'
  BY DEF OrderInv, RowsPending, Calm, Fewer, Visible
<1>6. QED
  BY <1>1, <1>2, <1>3, <1>4, <1>5 DEF OrderInv

\* Only the INSERT makes a row pending.
LEMMA CalmSteps ==
  ASSUME TypeInv, IInv, [Next]_vars, \A c \in Cmds : ~QueueCommand(c)
  PROVE  Calm
<1>1. ASSUME NEW c \in Cmds, NEW t \in Targets, NEW k \in Kinds, PostCommand(c, t, k)
      PROVE  Calm
  BY <1>1 DEF PostCommand, Calm, Stored, TypeInv, TypeOK
<1>2. ASSUME NEW c \in Cmds, AbortPost(c) PROVE Calm
  BY <1>2 DEF AbortPost, Calm, Stored, TypeInv, TypeOK
<1>3. CASE Second
  BY <1>3 DEF Second, Calm, Stored, TypeInv, TypeOK, commandVars
<1>4. ASSUME NEW r \in Reqs, MarkAcknowledged(r) PROVE Calm
  <2>1. req[r].phase = "mark" => \A c \in req[r].rows : Stored(c)
    BY DEF IInv, RowsStored
  <2>2. QED
    BY <1>4, <2>1 DEF MarkAcknowledged, Calm, Stored, TypeInv, TypeOK
<1>5. ASSUME NEW m \in reports, CompleteCommand(m) PROVE Calm
  <2>1. m.dev \in Devices /\ Logged(m.dev, m.cmd, m.ok)
    BY DEF IInv, ReportsLogged, TypeInv, TypeOK, Reports
  <2>2. Stored(m.cmd)
    BY <2>1 DEF IInv, RanSettled, Logged, Settled
  <2>3. QED
    BY <1>5, <2>2 DEF CompleteCommand, Calm, Stored, TypeInv, TypeOK
<1>6. CASE UNCHANGED <<commandVars, now>>
  BY <1>6 DEF Calm, Stored, TypeInv, TypeOK, commandVars
<1>7. QED
  BY <1>1, <1>2, <1>3, <1>4, <1>5, <1>6
  DEF Next, AdminNext, ServerNext, AgentNext, FaultNext, vars,
      ReadDevice, SelectPending, StartTick, ReceiveReply, Timeout,
      DiscardReply, ExecuteCommand, ReportResult, ReportAnswered,
      ReportTimeout, ReportOver, FinishTick, DropHeartbeat,
      DropReport, AgentCrash, Logout, Reboot, WipeStop, PowerCycle, Booted, AgentGone

\* Only a SELECT, a reply and an execution give an agent anything new.
LEMMA FewerSteps ==
  ASSUME TypeInv, IInv, [Next]_vars,
         \A r \in Reqs : ~SelectPending(r),
         \A d \in Devices : ~ReceiveReply(d),
         \A d \in Devices, c \in Cmds, ok \in BOOLEAN : ~ExecuteCommand(d, c, ok)
  PROVE  Fewer
<1>1. CASE UNCHANGED <<req, cur, todo, ran>>
  BY <1>1 DEF Fewer
<1>2. ASSUME NEW r \in Reqs, ReadDevice(r) PROVE Fewer
  BY <1>2, Members DEF ReadDevice, Heartbeat, Fewer, TypeInv, TypeOK, agentVars
<1>3. ASSUME NEW r \in Reqs, MarkAcknowledged(r) PROVE Fewer
  BY <1>3, Members DEF MarkAcknowledged, Answer, Heartbeat, Fewer, TypeInv,
                       TypeOK, agentVars
<1>4. ASSUME NEW d \in Devices, NEW r \in Reqs, StartTick(d, r) PROVE Fewer
  <2>1. \A b \in Devices : b # d /\ cur[b] # None => cur[b] # r
    BY <1>4 DEF StartTick, IInv, OwnRequest
  <2>2. QED
    BY <1>4, <2>1, Members DEF StartTick, Heartbeat, Fewer, TypeInv, TypeOK
<1>5. ASSUME NEW r \in Reqs, DiscardReply(r) PROVE Fewer
  BY <1>5, Members DEF DiscardReply, FreeReq, Heartbeat, Fewer, TypeInv,
                       TypeOK, agentVars
<1>6. ASSUME NEW r \in Reqs, DropHeartbeat(r) PROVE Fewer
  BY <1>6, Members DEF DropHeartbeat, FreeReq, Heartbeat, Fewer, TypeInv, TypeOK
<1>7. ASSUME NEW d \in Devices,
             Timeout(d) \/ AgentGone(d, "idle") \/ AgentGone(d, "off")
      PROVE  Fewer
  BY <1>7 DEF Timeout, AgentGone, Fewer, TypeInv, TypeOK
<1>8. QED
  BY <1>1, <1>2, <1>3, <1>4, <1>5, <1>6, <1>7
  DEF Next, AdminNext, ServerNext, AgentNext, FaultNext, vars, agentVars,
      PostCommand, QueueCommand, AbortPost, Second, CompleteCommand,
      ReportResult, ReportAnswered,
      ReportTimeout, ReportOver, FinishTick, DropReport, AgentCrash, Logout, Reboot, WipeStop,
      PowerCycle, Booted

\* Creation dates are numbers, so that they compose.
LEMMA Dates ==
  ASSUME TypeInv
  PROVE  /\ now \in Nat
         /\ \A c \in Cmds : created[c] \in Nat
BY DEF TypeInv, TypeOK

\* The order is inductive: what is not calm, or gives an agent something, is an
\* INSERT, a SELECT, a reply or an execution.
LEMMA OrderInductive ==
  ASSUME TypeInv, IInv, OrderInv, [Next]_vars
  PROVE  OrderInv'
<1>1. ASSUME NEW c \in Cmds, QueueCommand(c) PROVE OrderInv'
  <2>1. UNCHANGED <<target, now, req, cur, todo, ran>>
    BY <1>1 DEF QueueCommand, agentVars
  <2>2. /\ created'[c] = now /\ ~Stored(c)
        /\ \A b \in Cmds : b # c => created'[b] = created[b] /\ status'[b] = status[b]
    BY <1>1 DEF QueueCommand, Stored, TypeInv, TypeOK
  <2>3. CreatedPast'
    BY <2>1, <2>2, Dates DEF OrderInv, CreatedPast, Stored
  <2>4. \A b \in Cmds : Stored(b) => created'[b] = created[b] /\ created[b] <= now
    BY <2>2 DEF OrderInv, CreatedPast
  <2>5. PendingOrder'
    BY <2>1, <2>2, <2>4, Members DEF OrderInv, PendingOrder, IInv, RanSettled, Settled, Visible
  <2>6. RowsOrder'
    BY <2>1, <2>4, Members DEF OrderInv, RowsOrder, IInv, RanSettled, Settled, RowsStored
  <2>7. TodoOrder'
    BY <2>1, <2>4, Members DEF OrderInv, TodoOrder, IInv, RanSettled, Settled, TodoFresh
  <2>8. RowsPending'
    BY <2>1, <2>2, <2>4, Members DEF OrderInv, RowsPending, IInv, RowsStored, Visible
  <2>9. TodoPending'
    BY <2>1, <2>2, <2>4, Members DEF OrderInv, TodoPending, IInv, TodoFresh, Settled, Visible
  <2>10. QED
    BY <2>3, <2>5, <2>6, <2>7, <2>8, <2>9 DEF OrderInv
<1>2. ASSUME NEW r \in Reqs, SelectPending(r) PROVE OrderInv'
  <2>1. UNCHANGED <<commandVars, now, cur, todo, ran>>
    BY <1>2 DEF SelectPending, agentVars
  <2>2. /\ req'[r].rows = PendingFor(req[r].dev)
        /\ \A q \in Reqs : q # r => req'[q] = req[q]
    BY <1>2 DEF SelectPending, Heartbeat, TypeInv, TypeOK
  <2>3. CreatedPast' /\ PendingOrder' /\ TodoOrder' /\ TodoPending'
    BY <2>1 DEF OrderInv, CreatedPast, PendingOrder, TodoOrder, TodoPending,
                Stored, Visible, commandVars
  <2>4. RowsOrder' /\ RowsPending'
    <3> SUFFICES ASSUME NEW d \in Devices,
                        cur[d] # None, req'[cur[d]].phase \in {"mark", "reply"}
                 PROVE  /\ \A i \in DOMAIN ran[d] : \A c \in req'[cur[d]].rows :
                              created[ran[d][i].cmd] <= created[c]
                        /\ \A c \in req'[cur[d]].rows : \A x \in Cmds \ req'[cur[d]].rows :
                              status[x] = "pending" /\ Visible(x, d) =>
                                 created[c] <= created[x]
      BY <2>1 DEF RowsOrder, RowsPending, Visible, commandVars
    <3>1. CASE cur[d] = r
      <4>1. req'[r].rows = PendingFor(d)
        BY <2>2, <3>1 DEF IInv, OwnRequest
      <4>2. QED
        BY <3>1, <4>1 DEF OrderInv, PendingOrder, PendingFor
    <3>2. CASE cur[d] # r
      BY <2>2, <3>2, Members DEF OrderInv, RowsOrder, RowsPending
    <3>3. QED
      BY <3>1, <3>2
  <2>5. QED
    BY <2>3, <2>4 DEF OrderInv
<1>3. ASSUME NEW d \in Devices, ReceiveReply(d) PROVE OrderInv'
  <2>1. UNCHANGED <<commandVars, now, ran>>
    BY <1>3 DEF ReceiveReply
  <2>2. /\ cur[d] \in Reqs /\ cur[d] # None
        /\ req[cur[d]].phase = "reply" /\ req[cur[d]].dev = d
    BY <1>3, Members DEF ReceiveReply, TypeInv, Waiting, IInv, OwnRequest
  <2>3. /\ todo'[d] = req[cur[d]].rows
        /\ \A b \in Devices : b # d => todo'[b] = todo[b] /\ cur'[b] = cur[b]
        /\ cur'[d] = None
        /\ \A b \in Devices : b # d /\ cur[b] # None => req'[cur[b]] = req[cur[b]]
    BY <1>3, <2>2, Members DEF ReceiveReply, TypeInv, TypeOK, IInv, OwnRequest
  <2>4. CreatedPast' /\ PendingOrder'
    BY <2>1 DEF OrderInv, CreatedPast, PendingOrder, Stored, Visible, commandVars
  <2>5. RowsOrder' /\ RowsPending'
    BY <2>1, <2>3 DEF OrderInv, RowsOrder, RowsPending, Visible, commandVars
  <2>6. TodoOrder'
    BY <2>1, <2>2, <2>3 DEF OrderInv, TodoOrder, RowsOrder, commandVars
  <2>7. \A c \in req[cur[d]].rows : status[c] # "pending"
    BY <2>2 DEF IInv, ReplySettled, Settled
  <2>8. TodoPending'
    BY <2>1, <2>2, <2>3, <2>7, Members DEF OrderInv, TodoPending, RowsPending, Visible,
                                  commandVars
  <2>9. QED
    BY <2>4, <2>5, <2>6, <2>8 DEF OrderInv
<1>4. ASSUME NEW d \in Devices, NEW c \in Cmds, NEW ok \in BOOLEAN,
             ExecuteCommand(d, c, ok)
      PROVE  OrderInv'
  <2> DEFINE e == [cmd |-> c, ok |-> ok]
  <2>1. UNCHANGED <<commandVars, now, cur, req>>
    BY <1>4 DEF ExecuteCommand
  <2>2. /\ c \in todo[d] /\ \A b \in todo[d] : created[c] <= created[b]
        /\ cur[d] = None
    BY <1>4 DEF ExecuteCommand, NextOf, TypeInv, Waiting
  <2>3. /\ \A b \in Devices : todo'[b] \subseteq todo[b]
        /\ \A b \in Devices : b # d => ran'[b] = ran[b]
        /\ ran'[d] = Append(ran[d], e)
    BY <1>4 DEF ExecuteCommand, TypeInv, TypeOK
  <2>4. e \in Runs /\ e.cmd = c
    BY DEF Runs
  <2>5. \A i \in DOMAIN ran'[d] :
           \/ ran'[d][i].cmd = c
           \/ i \in DOMAIN ran[d] /\ ran'[d][i] = ran[d][i]
    <3> DEFINE n == Len(ran[d]) + 1
    <3>1. ran[d] \in Seq(Runs)
      BY DEF TypeInv, TypeOK
    <3>2. /\ DOMAIN ran'[d] = DOMAIN ran[d] \cup {n}
          /\ ran'[d][n] = e
          /\ \A i \in DOMAIN ran[d] : ran'[d][i] = ran[d][i]
      BY <2>3, <2>4, <3>1, AppendFacts
    <3> HIDE DEF e, n
    <3>3. ran'[d][n].cmd = c
      BY <2>4, <3>2
    <3>4. QED
      BY <3>2, <3>3
  <2> HIDE DEF e
  <2>6. CreatedPast'
    BY <2>1 DEF OrderInv, CreatedPast, Stored, commandVars
  <2>7. PendingOrder'
    BY <2>1, <2>2, <2>3, <2>5 DEF OrderInv, PendingOrder, TodoPending, Visible,
                                  commandVars
  <2>8. RowsOrder' /\ RowsPending'
    BY <2>1, <2>2, <2>3 DEF OrderInv, RowsOrder, RowsPending, Visible, commandVars
  <2>9. TodoOrder'
    BY <2>1, <2>2, <2>3, <2>5 DEF OrderInv, TodoOrder, commandVars
  <2>10. TodoPending'
    BY <2>1, <2>3 DEF OrderInv, TodoPending, Visible, commandVars
  <2>11. QED
    BY <2>6, <2>7, <2>8, <2>9, <2>10 DEF OrderInv
<1>5. QED
  BY <1>1, <1>2, <1>3, <1>4, CalmSteps, FewerSteps, QuietOrder

\* The order holds in every reachable state.
LEMMA OrderInvariant == Spec => []OrderInv
<1>1. Init => OrderInv
  BY FleetAssumption
  DEF Init, OrderInv, CreatedPast, PendingOrder, RowsOrder, TodoOrder,
      RowsPending, TodoPending, Stored
<1>2. TypeInv /\ IInv /\ OrderInv /\ [Next]_vars => OrderInv'
  BY OrderInductive
<1>3. QED
  BY <1>1, <1>2, TypeInvariant, DeliveryInvariant, PTL DEF Spec

\* A command has a device or the fleet to go to as soon as it is posted.
Targeted == \A c \in Cmds : status[c] # "none" => target[c] \in Devices \cup {Fleet}

\* Every command that exists has a target the promise knows.
LEMMA TargetInvariant == Spec => []Targeted
<1>1. Init => Targeted
  BY DEF Init, Targeted
<1>2. TypeInv /\ IInv /\ Targeted /\ [Next]_vars => Targeted'
  <2> SUFFICES ASSUME TypeInv, IInv, Targeted, [Next]_vars PROVE Targeted'
    OBVIOUS
  <2>1. ASSUME NEW c \in Cmds, NEW t \in Targets, NEW k \in Kinds, PostCommand(c, t, k)
        PROVE  Targeted'
    BY <2>1, FleetAssumption DEF PostCommand, Targeted, TypeInv, TypeOK
  <2>2. ASSUME NEW c \in Cmds, QueueCommand(c) \/ AbortPost(c) PROVE Targeted'
    BY <2>2 DEF QueueCommand, AbortPost, Targeted, TypeInv, TypeOK
  <2>3. ASSUME NEW r \in Reqs, MarkAcknowledged(r) PROVE Targeted'
    <3>1. req[r].phase = "mark" => \A c \in req[r].rows : Stored(c)
      BY DEF IInv, RowsStored
    <3>2. QED
      BY <2>3, <3>1 DEF MarkAcknowledged, Targeted, Stored
  <2>4. ASSUME NEW m \in reports, CompleteCommand(m) PROVE Targeted'
    <3>1. m.dev \in Devices
      BY DEF TypeInv, TypeOK, Reports
    <3>2. QED
      BY <2>4, <3>1 DEF CompleteCommand, Targeted, Visible, TypeInv, TypeOK
  <2>5. CASE UNCHANGED commandVars
    BY <2>5 DEF Targeted, commandVars
  <2>6. QED
    BY <2>1, <2>2, <2>3, <2>4, <2>5
    DEF Next, AdminNext, ServerNext, AgentNext, FaultNext, vars, Second,
        ReadDevice, SelectPending, StartTick, ReceiveReply, Timeout,
        DiscardReply, ExecuteCommand, ReportResult, ReportAnswered,
      ReportTimeout, ReportOver, FinishTick, DropHeartbeat,
        DropReport, AgentCrash, Logout, Reboot, WipeStop, PowerCycle, Booted, AgentGone
<1>3. QED
  BY <1>1, <1>2, TypeInvariant, DeliveryInvariant, PTL DEF Spec

-----------------------------------------------------------------------------
\* The mapped history of a device, and the mapped rows.
Done(d) == [i \in DOMAIN ran[d] |-> ran[d][i].cmd]

Rows == [c \in Cmds |-> Row(c)]

\* Projecting a sequence of runs on their commands commutes with Append.
LEMMA MapAppend ==
  ASSUME NEW s \in Seq(Runs), NEW e \in Runs
  PROVE  LET f(q) == [i \in DOMAIN q |-> q[i].cmd]
         IN  f(Append(s, e)) = Append(f(s), e.cmd)
<1> DEFINE f(q) == [i \in DOMAIN q |-> q[i].cmd]
           t == Append(s, e)
<1>1. /\ Len(s) \in Nat /\ DOMAIN s = 1 .. Len(s)
      /\ t \in Seq(Runs) /\ Len(t) = Len(s) + 1 /\ DOMAIN t = 1 .. Len(s) + 1
      /\ t[Len(s) + 1] = e
      /\ \A i \in 1 .. Len(s) : t[i] = s[i]
  BY LenProperties
<1>2. \A i \in 1 .. Len(s) : s[i].cmd \in Cmds
  <2>1. \A i \in 1 .. Len(s) : s[i] \in Runs
    BY ElementOfSeq
  <2>2. QED
    BY <2>1 DEF Runs
<1>3. e.cmd \in Cmds /\ \A i \in 1 .. Len(s) + 1 : t[i].cmd \in Cmds
  <2>1. \A i \in 1 .. Len(t) : t[i] \in Runs
    BY <1>1, ElementOfSeq
  <2>2. QED
    BY <1>1, <2>1 DEF Runs
<1>4. f(s) \in Seq(Cmds) /\ Len(f(s)) = Len(s)
  BY <1>1, <1>2
<1>5. f(t) \in Seq(Cmds) /\ Len(f(t)) = Len(s) + 1
  BY <1>1, <1>3
<1> DEFINE u == Append(f(s), e.cmd)
<1>6. /\ u \in Seq(Cmds) /\ Len(u) = Len(s) + 1
      /\ u[Len(s) + 1] = e.cmd
      /\ \A i \in 1 .. Len(s) : u[i] = s[i].cmd
  BY <1>1, <1>3, <1>4
<1>7. \A i \in 1 .. Len(s) + 1 : f(t)[i] = u[i]
  BY <1>1, <1>6
<1>8. f(t) = u
  BY <1>5, <1>6, <1>7, SeqEqual
<1>9. QED
  BY <1>8

\* A step that maps to no step.
LEMMA Stutters ==
  ASSUME UNCHANGED <<ran, now>>, \A c \in Cmds : Row(c)' = Row(c)
  PROVE  UNCHANGED Delivery!vars
<1>1. Rows' = Rows
  BY DEF Rows
<1>2. QED
  BY <1>1 DEF Delivery!vars, Rows

\* The INSERT is the promise's Queue.
LEMMA QueueSimulation ==
  ASSUME TypeInv, Targeted, NEW c \in Cmds, QueueCommand(c)
  PROVE  Delivery!Queue(c, target[c]) /\ target[c] \in Devices \cup {Fleet}
<1>1. Rows[c] = None /\ target[c] \in Devices \cup {Fleet}
  BY DEF QueueCommand, Rows, Row, Targeted
<1>2. Rows' = [Rows EXCEPT ![c] = [to |-> target[c], at |-> now]]
  BY DEF QueueCommand, Rows, Row, TypeInv, TypeOK
<1>3. UNCHANGED <<ran, now>>
  BY DEF QueueCommand, agentVars
<1>4. QED
  BY <1>1, <1>2, <1>3 DEF Delivery!Queue, Rows

\* executeCommand is the promise's Execute.
LEMMA ExecuteSimulation ==
  ASSUME TypeInv, IInv, OrderInv, Targeted,
         NEW d \in Devices, NEW c \in Cmds, NEW ok \in BOOLEAN,
         ExecuteCommand(d, c, ok)
  PROVE  Delivery!Execute(d, c)
<1> DEFINE e == [cmd |-> c, ok |-> ok]
           D == [b \in Devices |-> Done(b)]
<1>1. UNCHANGED <<commandVars, now>>
  BY DEF ExecuteCommand
<1>2. c \in todo[d] /\ NotRun(c, d) /\ Stored(c) /\ Visible(c, d)
  BY DEF ExecuteCommand, NextOf, IInv, TodoFresh, Settled
<1>3. Rows[c] = [to |-> target[c], at |-> created[c]]
  BY <1>2 DEF Rows, Row, Stored
<1>4. Rows[c] # None
  <2>1. target[c] \in Devices \cup {Fleet} /\ created[c] \in Nat
    BY <1>2, Dates DEF Targeted, Stored
  <2>2. QED
    BY <1>3, <2>1, FleetAssumption
<1>5. \A i \in DOMAIN ran[d] :
         /\ ran[d][i].cmd # c
         /\ Rows[ran[d][i].cmd].at <= Rows[c].at
  <2>1. \A i \in DOMAIN ran[d] : Rows[ran[d][i].cmd].at = created[ran[d][i].cmd]
    BY Members DEF IInv, RanSettled, Settled, Stored, Rows, Row
  <2>2. \A i \in DOMAIN ran[d] : created[ran[d][i].cmd] <= created[c]
    BY <1>2 DEF OrderInv, TodoOrder
  <2>3. QED
    BY <1>2, <1>3, <2>1, <2>2 DEF NotRun
<1>6. /\ \A b \in Devices : b # d => ran'[b] = ran[b]
      /\ ran'[d] = Append(ran[d], e)
  BY DEF ExecuteCommand, TypeInv, TypeOK
<1>7. ran[d] \in Seq(Runs) /\ e \in Runs
  BY DEF TypeInv, TypeOK, Runs
<1>8. Done(d)' = Append(Done(d), c)
  BY <1>6, <1>7, MapAppend DEF Done
<1>9. D' = [D EXCEPT ![d] = Append(D[d], c)]
  <2>1. \A b \in Devices : b # d => Done(b)' = Done(b)
    BY <1>6 DEF Done
  <2>2. QED
    BY <1>8, <2>1
<1>10. QED
  <2>1. Delivery!Addressed(c, d)
    BY <1>2, <1>3, <1>4 DEF Delivery!Addressed, Rows, Visible
  <2>2. Rows' = Rows
    BY <1>1 DEF Rows, Row, commandVars
  <2>3. D[d] = Done(d)
    OBVIOUS
  <2>4. QED
    BY <1>1, <1>5, <1>9, <2>1, <2>2, <2>3, <1>3 DEF Delivery!Execute, Rows, Done

\* Every step of the implementation is a step of the promise, or none.
LEMMA StepSimulation ==
  ASSUME TypeInv, IInv, OrderInv, Targeted, [Next]_vars
  PROVE  [Delivery!Next]_Delivery!vars
<1>1. ASSUME NEW c \in Cmds, QueueCommand(c) PROVE Delivery!Next
  BY <1>1, QueueSimulation DEF Delivery!Next
<1>2. ASSUME NEW d \in Devices, NEW c \in Cmds, NEW ok \in BOOLEAN,
             ExecuteCommand(d, c, ok)
      PROVE  Delivery!Next
  BY <1>2, ExecuteSimulation DEF Delivery!Next
<1>3. CASE Second
  <2>1. UNCHANGED <<ran, commandVars>> /\ now' = now + 1
    BY <1>3 DEF Second, agentVars
  <2>2. Rows' = Rows
    BY <2>1 DEF Rows, Row, commandVars
  <2>3. Delivery!Advance
    BY <2>1, <2>2 DEF Delivery!Advance, Rows
  <2>4. QED
    BY <2>3 DEF Delivery!Next
<1>4. ASSUME Calm, UNCHANGED <<ran, now>> PROVE UNCHANGED Delivery!vars
  <2>1. \A c \in Cmds : Stored(c) <=> Stored(c)'
    BY <1>4, RowsAreStable DEF Calm
  <2>2. \A c \in Cmds : Row(c)' = Row(c)
    BY <1>4, <2>1, RowsAreStable DEF Row, Stored, Calm
  <2>3. QED
    BY <1>4, <2>2, Stutters
<1>5. ASSUME \A c \in Cmds : ~QueueCommand(c), ~Second,
             \A d \in Devices, c \in Cmds, ok \in BOOLEAN : ~ExecuteCommand(d, c, ok)
      PROVE  UNCHANGED Delivery!vars
  <2>1. UNCHANGED <<ran, now>>
    BY <1>5 DEF Next, AdminNext, ServerNext, AgentNext, FaultNext, vars,
       agentVars, PostCommand, AbortPost, ReadDevice, SelectPending,
       MarkAcknowledged, CompleteCommand, StartTick, ReceiveReply, Timeout,
       DiscardReply, ReportResult, ReportAnswered,
      ReportTimeout, ReportOver, FinishTick, DropHeartbeat, DropReport,
       AgentCrash, Logout, Reboot, WipeStop, PowerCycle, Booted, AgentGone
  <2>2. QED
    BY <1>4, <1>5, <2>1, CalmSteps
<1>6. QED
  BY <1>1, <1>2, <1>3, <1>5

\* Whatever the control plane and the agents do, an administrator sees what
\* CommandDelivery promises: execution at most once, only where addressed,
\* and in creation order.
THEOREM ImplementsDelivery == Spec => DeliversInOrder
<1>1. Init => Delivery!Init
  BY FleetAssumption DEF Init, Delivery!Init, Row
<1>2. TypeInv /\ IInv /\ OrderInv /\ Targeted /\ [Next]_vars
         => [Delivery!Next]_Delivery!vars
  BY StepSimulation
<1>3. QED
  BY <1>1, <1>2, TypeInvariant, DeliveryInvariant, OrderInvariant,
     TargetInvariant, PTL
  DEF Spec, DeliversInOrder, Delivery!Spec
=============================================================================
