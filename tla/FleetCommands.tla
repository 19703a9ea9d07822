---------------------------- MODULE FleetCommands ----------------------------
(***************************************************************************)
(* The remote-command path of Pallet OS, end to end: the administrator's   *)
(* HTTP handlers and the `commands` table of the control plane             *)
(* (server/src/index.ts, server/src/db.ts), the heartbeat and completion   *)
(* requests, and the command loop and lock state of the device agent       *)
(* (agent/main.go).                                                        *)
(*                                                                         *)
(* Every database statement of a handler is a separate step: the handlers  *)
(* await each one, and requests of several devices, and of one device      *)
(* whose client gave up on an earlier request, interleave between them.    *)
(*                                                                         *)
(* Abstractions.  A payload is not represented: what a command does to     *)
(* the machine is its kind.  The kinds "install_app", "remove_app",        *)
(* "apply_policy", "restart_shell", "check_updates" and unknown ones are   *)
(* all "task": the agent runs them, they succeed or fail, and they touch   *)
(* nothing else of this module.                                            *)
(***************************************************************************)
EXTENDS Naturals, Sequences, FiniteSets

CONSTANTS
    Devices,    \* enrolled devices
    Cmds,       \* identifiers the server may give to commands (randomId)
    Reqs,       \* heartbeat requests that may exist at the same time (a bound)
    Fleet,      \* the NULL device_id: a command for every device
    None,       \* no request, no device, no target
    Kinds,      \* kinds of command the administrators send
    Targets,    \* where they send them: devices, or Fleet
    Faults,     \* which failures may happen: "drop", "timeout", "crash"
    MaxFaults,  \* how many failures may happen (a bound)
    MaxNow      \* last second of the database clock (a bound)

AllKinds == {"lock", "unlock", "logout", "reboot", "wipe", "task"}

\* None is no value of the model: no device, no request, no command and, since
\* it stands for "no row" in CommandDelivery, no row either.
ASSUME FleetAssumption ==
    /\ Fleet \notin Devices
    /\ None \notin Devices \cup Reqs \cup Cmds \cup {Fleet}
    /\ None \notin [to: Devices \cup {Fleet}, at: Nat]
    /\ Kinds \subseteq AllKinds
    /\ Targets \subseteq Devices \cup {Fleet}
    /\ Faults \subseteq {"drop", "timeout", "crash"}
    /\ MaxFaults \in Nat
    /\ MaxNow \in Nat

VARIABLES
    \* The `commands` table.
    status,     \* lifecycle of each command; see Statuses
    target,     \* device_id column
    kind,       \* command_type column
    created,    \* created_at column: a whole second
    \* The `devices` table.
    locked,     \* locked column
    \* Requests and the database clock.
    now,        \* datetime('now')
    req,        \* heartbeat requests on the network or in their handler
    reports,    \* "complete" requests on the network
    \* The agents.
    mode,       \* where each agent is in its loop
    cur,        \* the heartbeat request the agent waits for
    todo,       \* commands of the last reply still to be executed
    doing,      \* the command executed and being reported, or NoReport
    agentLocked, \* a.locked
    screen,     \* the session on the screen; see Screens
    ending,     \* the goroutines that will end the session or the agent
    \* Bookkeeping.
    ran,        \* history: what each device executed, in order
    faults      \* failures still allowed

commandVars == <<status, target, kind, created>>
agentVars   == <<mode, cur, todo, doing, agentLocked, screen, ending, ran>>
vars == <<commandVars, locked, now, req, reports, agentVars, faults>>

-----------------------------------------------------------------------------
\* "none": no row.  "posting": the administrator's handler runs and has not
\* inserted the row yet.  The others are the values of the status column.
Statuses == {"none", "posting", "pending", "acknowledged", "completed",
             "failed"}

\* Where a heartbeat request is: on its way to the server ("sent"), before
\* the SELECT of pending commands ("select"), before the UPDATE that
\* acknowledges them ("mark"), or on its way back ("reply").
Phases == {"free", "sent", "select", "mark", "reply"}

Requests == [phase: Phases, dev: Devices \cup {None}, rows: SUBSET Cmds,
             locked: BOOLEAN]
Heartbeat(p, d, rows, lock) ==
    [phase |-> p, dev |-> d, rows |-> rows, locked |-> lock]
FreeReq == Heartbeat("free", None, {}, FALSE)

Runs     == [cmd: Cmds, ok: BOOLEAN]
Reports  == [dev: Devices, cmd: Cmds, ok: BOOLEAN]
NoReport == [cmd |-> None, ok |-> FALSE]

\* "idle": sleeping between two ticks.  "waiting": in the heartbeat call.
\* "working": after the reply, in the command loop.  "reporting": in the
\* completion call of a command.  "off": stopped.
Modes == {"idle", "waiting", "working", "reporting", "off"}

\* "fresh": the open session that greetd starts when one was ended, and which
\* nobody has locked or unlocked since.  It never looks at /run/pallet/locked.
Screens == {"open", "locked", "fresh"}

\* What executeCommand leaves to a goroutine.
Scheduled == {"logout", "reboot", "wipe"}

\* The tables, the requests and the agents hold what the code puts in them:
\* device ids, command ids and flags of their kind, and whole seconds.
TypeOK ==
    /\ status  \in [Cmds -> Statuses]
    /\ target  \in [Cmds -> Devices \cup {Fleet, None}]
    /\ kind    \in [Cmds -> AllKinds]
    /\ created \in [Cmds -> Nat]
    /\ locked  \in [Devices -> BOOLEAN]
    /\ now     \in Nat
    /\ req     \in [Reqs -> Requests]
    /\ reports \subseteq Reports
    /\ mode    \in [Devices -> Modes]
    /\ cur     \in [Devices -> Reqs \cup {None}]
    /\ todo    \in [Devices -> SUBSET Cmds]
    /\ doing   \in [Devices -> Runs \cup {NoReport}]
    /\ agentLocked \in [Devices -> BOOLEAN]
    /\ screen  \in [Devices -> Screens]
    /\ ending  \in [Devices -> SUBSET Scheduled]
    /\ ran     \in [Devices -> Seq(Runs)]
    /\ faults  \in Nat

Init ==
    /\ status  = [c \in Cmds |-> "none"]
    /\ target  = [c \in Cmds |-> None]
    /\ kind    = [c \in Cmds |-> "task"]
    /\ created = [c \in Cmds |-> 0]
    /\ locked  = [d \in Devices |-> FALSE]
    /\ now     = 0
    /\ req     = [r \in Reqs |-> FreeReq]
    /\ reports = {}
    /\ mode    = [d \in Devices |-> "idle"]
    /\ cur     = [d \in Devices |-> None]
    /\ todo    = [d \in Devices |-> {}]
    /\ doing   = [d \in Devices |-> NoReport]
    /\ agentLocked = [d \in Devices |-> FALSE]
    /\ screen  = [d \in Devices |-> "open"]
    /\ ending  = [d \in Devices |-> {}]
    /\ ran     = [d \in Devices |-> <<>>]
    /\ faults  = MaxFaults

-----------------------------------------------------------------------------
(* The administrator's side.                                               *)

\* setDeviceLocked: the flag of device d once command k for t is accepted.
FlagAfter(d, t, k) ==
    IF d = t /\ k \in {"lock", "unlock"} THEN k = "lock" ELSE locked[d]

\* POST /admin/devices/:id/commands, up to the insertion: "lock" and
\* "unlock" first set the flag of the device.  POST /admin/commands/fleet
\* never sets a flag.
PostCommand(c, t, k) ==
    /\ status[c] = "none"
    /\ status' = [status EXCEPT ![c] = "posting"]
    /\ target' = [target EXCEPT ![c] = t]
    /\ kind'   = [kind EXCEPT ![c] = k]
    /\ locked' = [d \in Devices |-> FlagAfter(d, t, k)]
    /\ UNCHANGED <<created, now, req, reports, agentVars, faults>>

\* Mutant: the row is dated a second early.
QueueCommand_early(c) ==
    /\ status[c] = "posting"
    /\ status'  = [status EXCEPT ![c] = "pending"]
    /\ created' = [created EXCEPT ![c] = now - 1]
    /\ UNCHANGED <<target, kind, locked, now, req, reports, agentVars, faults>>

\* The INSERT; created_at is the second in which it happens.
QueueCommand(c) ==
    /\ status[c] = "posting"
    /\ status'  = [status EXCEPT ![c] = "pending"]
    /\ created' = [created EXCEPT ![c] = now]
    /\ UNCHANGED <<target, kind, locked, now, req, reports, agentVars, faults>>

\* A failure is allowed, and this step uses one up.
Fault(f) ==
    /\ f \in Faults
    /\ faults > 0
    /\ faults' = faults - 1

\* The handler dies between setDeviceLocked and queueCommand.
AbortPost(c) ==
    /\ Fault("drop")
    /\ status[c] = "posting"
    /\ status' = [status EXCEPT ![c] = "none"]
    /\ target' = [target EXCEPT ![c] = None]
    /\ kind'   = [kind EXCEPT ![c] = "task"]
    /\ UNCHANGED <<created, locked, now, req, reports, agentVars>>

\* A second of the database clock passes.
Second ==
    /\ now < MaxNow
    /\ now' = now + 1
    /\ UNCHANGED <<commandVars, locked, req, reports, agentVars, faults>>

-----------------------------------------------------------------------------
(* The heartbeat handler.                                                  *)

\* Mutant: the WHERE clause forgets the device.
Visible_any(c, d) == target[c] # None

\* The rows of a device: device_id = ? OR device_id IS NULL.
Visible(c, d) == target[c] \in {d, Fleet}

\* Recording the telemetry and reading the policy are the same for every
\* state of this module; what the reply will say of the lock is read here,
\* before the commands are.
ReadDevice(r) ==
    /\ req[r].phase = "sent"
    /\ req' = [req EXCEPT ![r] =
                 Heartbeat("select", req[r].dev, {}, locked[req[r].dev])]
    /\ UNCHANGED <<commandVars, locked, now, reports, agentVars, faults>>

\* Mutant: the SELECT forgets the status.
PendingFor_all(d) ==
    {c \in Cmds : status[c] \notin {"none", "posting"} /\ Visible(c, d)}

PendingFor(d) == {c \in Cmds : status[c] = "pending" /\ Visible(c, d)}

\* The SELECT of fetchPendingCommands; without rows nothing is updated.
SelectPending(r) ==
    LET rows == PendingFor(req[r].dev) IN
    /\ req[r].phase = "select"
    /\ req' = [req EXCEPT ![r] =
                 Heartbeat(IF rows = {} THEN "reply" ELSE "mark",
                           req[r].dev, rows, req[r].locked)]
    /\ UNCHANGED <<commandVars, locked, now, reports, agentVars, faults>>

\* The handler answers with the rows it selected, and the lock it read.
Answer(q) == Heartbeat("reply", q.dev, q.rows, q.locked)

\* Mutant: the UPDATE is forgotten.
MarkAcknowledged_never(r) ==
    /\ req[r].phase = "mark"
    /\ req' = [req EXCEPT ![r] = Answer(req[r])]
    /\ UNCHANGED <<commandVars, locked, now, reports, agentVars, faults>>

\* Mutant: the UPDATE repeats the condition of the SELECT instead of its ids.
MarkAcknowledged_where(r) ==
    /\ req[r].phase = "mark"
    /\ status' = [c \in Cmds |-> IF c \in PendingFor(req[r].dev)
                                 THEN "acknowledged" ELSE status[c]]
    /\ req' = [req EXCEPT ![r] = Answer(req[r])]
    /\ UNCHANGED <<target, kind, created, locked, now, reports, agentVars,
                   faults>>

\* The UPDATE: by id only, whatever the rows have become since the SELECT.
MarkAcknowledged(r) ==
    /\ req[r].phase = "mark"
    /\ status' = [c \in Cmds |-> IF c \in req[r].rows THEN "acknowledged"
                                                     ELSE status[c]]
    /\ req' = [req EXCEPT ![r] = Answer(req[r])]
    /\ UNCHANGED <<target, kind, created, locked, now, reports, agentVars,
                   faults>>

\* Mutant: a result without success counts as one (body.success ?? true with
\* the field never sent).
CompleteCommand_optimist(m) ==
    /\ m \in reports
    /\ reports' = reports \ {m}
    /\ status' = IF Visible(m.cmd, m.dev)
                 THEN [status EXCEPT ![m.cmd] = "completed"] ELSE status
    /\ UNCHANGED <<target, kind, created, locked, now, req, agentVars, faults>>

\* The completion handler: it does not look at the status either.
CompleteCommand(m) ==
    /\ m \in reports
    /\ reports' = reports \ {m}
    /\ status' = IF Visible(m.cmd, m.dev)
                 THEN [status EXCEPT ![m.cmd] =
                         IF m.ok THEN "completed" ELSE "failed"]
                 ELSE status
    /\ UNCHANGED <<target, kind, created, locked, now, req, agentVars, faults>>

-----------------------------------------------------------------------------
(* The agent.                                                              *)

\* tick() posts the heartbeat.  A free request must be left: Reqs bounds
\* how many abandoned requests the network and the server still hold.
StartTick(d, r) ==
    /\ mode[d] = "idle"
    /\ req[r].phase = "free"
    /\ req'  = [req EXCEPT ![r] = Heartbeat("sent", d, {}, FALSE)]
    /\ mode' = [mode EXCEPT ![d] = "waiting"]
    /\ cur'  = [cur EXCEPT ![d] = r]
    /\ UNCHANGED <<commandVars, locked, now, reports, todo, doing,
                   agentLocked, screen, ending, ran, faults>>

\* Mutant: the agent keeps its own idea of the lock.
ReceiveReply_keeps(d) ==
    /\ mode[d] = "waiting"
    /\ req[cur[d]].phase = "reply"
    /\ todo' = [todo EXCEPT ![d] = req[cur[d]].rows]
    /\ req'  = [req EXCEPT ![cur[d]] = FreeReq]
    /\ mode' = [mode EXCEPT ![d] = "working"]
    /\ cur'  = [cur EXCEPT ![d] = None]
    /\ UNCHANGED <<commandVars, locked, now, reports, doing, agentLocked,
                   screen, ending, ran, faults>>

\* The reply arrives: a.locked is what it says, its commands are the list
\* the loop runs through.
ReceiveReply(d) ==
    /\ mode[d] = "waiting"
    /\ req[cur[d]].phase = "reply"
    /\ agentLocked' = [agentLocked EXCEPT ![d] = req[cur[d]].locked]
    /\ todo' = [todo EXCEPT ![d] = req[cur[d]].rows]
    /\ req'  = [req EXCEPT ![cur[d]] = FreeReq]
    /\ mode' = [mode EXCEPT ![d] = "working"]
    /\ cur'  = [cur EXCEPT ![d] = None]
    /\ UNCHANGED <<commandVars, locked, now, reports, doing, screen, ending,
                   ran, faults>>

\* The client gives up (45 s): tick() returns the error.  The server goes on
\* with the request.
Timeout(d) ==
    /\ Fault("timeout")
    /\ mode[d] = "waiting"
    /\ mode' = [mode EXCEPT ![d] = "idle"]
    /\ cur'  = [cur EXCEPT ![d] = None]
    /\ UNCHANGED <<commandVars, locked, now, req, reports, todo, doing,
                   agentLocked, screen, ending, ran>>

\* Nobody waits for the reply of an abandoned request.
DiscardReply(r) ==
    /\ req[r].phase = "reply"
    /\ cur[req[r].dev] # r
    /\ req' = [req EXCEPT ![r] = FreeReq]
    /\ UNCHANGED <<commandVars, locked, now, reports, agentVars, faults>>

\* Mutant: the SELECT has no ORDER BY.
NextOf_any(d, c) == c \in todo[d]

\* The next command of the list: ORDER BY created_at, rows of one second in
\* any order.
NextOf(d, c) == c \in todo[d] /\ \A b \in todo[d] : created[c] <= created[b]

\* executeCommand.  Only a task can fail.  "logout", "reboot" and "wipe" answer
\* at once and go on in a goroutine; two logouts that wait are one.
ExecuteCommand(d, c, ok) ==
    /\ mode[d] = "working"
    /\ doing[d] = NoReport
    /\ NextOf(d, c)
    /\ kind[c] = "task" \/ ok
    /\ todo'  = [todo EXCEPT ![d] = @ \ {c}]
    /\ doing' = [doing EXCEPT ![d] = [cmd |-> c, ok |-> ok]]
    /\ ran'   = [ran EXCEPT ![d] = Append(@, [cmd |-> c, ok |-> ok])]
    /\ IF kind[c] \in {"lock", "unlock"}
       THEN /\ agentLocked' = [agentLocked EXCEPT ![d] = kind[c] = "lock"]
            /\ screen'      = [screen EXCEPT ![d] =
                                 IF kind[c] = "lock" THEN "locked" ELSE "open"]
       ELSE UNCHANGED <<agentLocked, screen>>
    /\ ending' = [ending EXCEPT ![d] = @ \cup ({kind[c]} \cap Scheduled)]
    /\ UNCHANGED <<commandVars, locked, now, req, reports, mode, cur, faults>>

ReportOf(d) == [dev |-> d, cmd |-> doing[d].cmd, ok |-> doing[d].ok]

\* The POST .../complete.
ReportResult(d) ==
    /\ mode[d] = "working"
    /\ doing[d] # NoReport
    /\ reports' = reports \cup {ReportOf(d)}
    /\ mode'    = [mode EXCEPT ![d] = "reporting"]
    /\ UNCHANGED <<commandVars, locked, now, req, cur, todo, doing,
                   agentLocked, screen, ending, ran, faults>>

\* The call is over, answered or not: the loop ignores its error and never
\* repeats it.
ReportOver(d) ==
    /\ mode[d] = "reporting"
    /\ mode'  = [mode EXCEPT ![d] = "working"]
    /\ doing' = [doing EXCEPT ![d] = NoReport]
    /\ UNCHANGED <<commandVars, locked, now, req, reports, cur, todo,
                   agentLocked, screen, ending, ran>>

ReportAnswered(d) ==
    /\ ReportOf(d) \notin reports
    /\ ReportOver(d)
    /\ UNCHANGED faults

\* After 45 s the client gives up; the report may still arrive.
ReportTimeout(d) ==
    /\ Fault("timeout")
    /\ ReportOver(d)

\* Mutant: tick() ends without ensureLocked.
FinishTick_open(d) ==
    /\ mode[d] = "working"
    /\ todo[d] = {}
    /\ doing[d] = NoReport
    /\ mode'   = [mode EXCEPT ![d] = "idle"]
    /\ UNCHANGED <<commandVars, locked, now, req, reports, cur, todo, doing,
                   agentLocked, screen, ending, ran, faults>>

\* The end of tick(): a locked agent locks the session again.
FinishTick(d) ==
    /\ mode[d] = "working"
    /\ todo[d] = {}
    /\ doing[d] = NoReport
    /\ mode'   = [mode EXCEPT ![d] = "idle"]
    /\ screen' = [screen EXCEPT ![d] = IF agentLocked[d] THEN "locked" ELSE @]
    /\ UNCHANGED <<commandVars, locked, now, req, reports, cur, todo, doing,
                   agentLocked, ending, ran, faults>>

-----------------------------------------------------------------------------
(* Failures of the network and of the processes.                           *)

\* A heartbeat is lost on the way, or its handler dies, or its reply is lost;
\* the agent that waits for it gets an error.
DropHeartbeat(r) ==
    /\ Fault("drop")
    /\ req[r].phase # "free"
    /\ req'  = [req EXCEPT ![r] = FreeReq]
    /\ mode' = [d \in Devices |-> IF cur[d] = r THEN "idle" ELSE mode[d]]
    /\ cur'  = [d \in Devices |-> IF cur[d] = r THEN None ELSE cur[d]]
    /\ UNCHANGED <<commandVars, locked, now, reports, todo, doing,
                   agentLocked, screen, ending, ran>>

\* A report does not reach the server.
DropReport(m) ==
    /\ Fault("drop")
    /\ m \in reports
    /\ reports' = reports \ {m}
    /\ UNCHANGED <<commandVars, locked, now, req, agentVars>>

\* The agent process is gone; the next one starts with nothing but its
\* configuration file.
AgentGone(d, m) ==
    /\ mode'  = [mode EXCEPT ![d] = m]
    /\ cur'   = [cur EXCEPT ![d] = None]
    /\ todo'  = [todo EXCEPT ![d] = {}]
    /\ doing' = [doing EXCEPT ![d] = NoReport]
    /\ agentLocked' = [agentLocked EXCEPT ![d] = FALSE]
    /\ UNCHANGED <<commandVars, locked, now, req, reports, ran>>

\* What the process had scheduled goes with it, except a reboot or a logout
\* that systemd has already been asked for.
ForgetEnding(d) ==
    \E left \in SUBSET (ending[d] \cap {"logout", "reboot"}) :
        ending' = [ending EXCEPT ![d] = left]

\* The agent dies and systemd restarts it (Restart=always).
AgentCrash(d) ==
    /\ Fault("crash")
    /\ mode[d] # "off"
    /\ AgentGone(d, "idle")
    /\ ForgetEnding(d)
    /\ UNCHANGED screen

\* The machine boots: the lock file is in /run and goes away.
Booted(d) ==
    /\ AgentGone(d, "idle")
    /\ screen' = [screen EXCEPT ![d] = "open"]
    /\ ending' = [ending EXCEPT ![d] = {}]

\* loginctl terminate-user: the session ends, locked or not, and greetd starts
\* a new one.  It may happen at any moment of the loop, or while it sleeps.
Logout(d) ==
    /\ "logout" \in ending[d]
    /\ screen' = [screen EXCEPT ![d] = "fresh"]
    /\ ending' = [ending EXCEPT ![d] = @ \ {"logout"}]
    /\ UNCHANGED <<commandVars, locked, now, req, reports, mode, cur, todo,
                   doing, agentLocked, ran, faults>>

\* The scheduled reboot happens.
Reboot(d) ==
    /\ "reboot" \in ending[d]
    /\ Booted(d)
    /\ UNCHANGED faults

\* The wipe begins by stopping the agent, which stays off until the next
\* boot.
WipeStop(d) ==
    /\ "wipe" \in ending[d]
    /\ AgentGone(d, "off")
    /\ ForgetEnding(d)
    /\ UNCHANGED <<screen, faults>>

\* The user switches the machine off and on.
PowerCycle(d) ==
    /\ Fault("crash")
    /\ Booted(d)

-----------------------------------------------------------------------------
AdminNext ==
    \/ \E c \in Cmds, t \in Targets, k \in Kinds : PostCommand(c, t, k)
    \/ \E c \in Cmds : QueueCommand(c)
    \/ Second

ServerNext ==
    \/ \E r \in Reqs : \/ ReadDevice(r)
                       \/ SelectPending(r)
                       \/ MarkAcknowledged(r)
    \/ \E m \in reports : CompleteCommand(m)

AgentNext ==
    \/ \E d \in Devices :
          \/ \E r \in Reqs : StartTick(d, r)
          \/ ReceiveReply(d)
          \/ \E c \in Cmds, ok \in BOOLEAN : ExecuteCommand(d, c, ok)
          \/ ReportResult(d)
          \/ ReportAnswered(d)
          \/ FinishTick(d)
          \/ Logout(d)
          \/ Reboot(d)
          \/ WipeStop(d)
    \/ \E r \in Reqs : DiscardReply(r)

FaultNext ==
    \/ \E c \in Cmds : AbortPost(c)
    \/ \E r \in Reqs : DropHeartbeat(r)
    \/ \E m \in reports : DropReport(m)
    \/ \E d \in Devices :
          Timeout(d) \/ ReportTimeout(d) \/ AgentCrash(d) \/ PowerCycle(d)

Next == AdminNext \/ ServerNext \/ AgentNext \/ FaultNext

Spec == Init /\ [][Next]_vars

\* Nothing forces an administrator to act or a failure to happen.  The rest
\* goes on: an accepted request is served to its end, the agent's loop never
\* stops, and a scheduled logout, reboot or wipe takes place.
Fairness ==
    /\ \A c \in Cmds : WF_vars(QueueCommand(c))
    /\ \A r \in Reqs : /\ WF_vars(ReadDevice(r))
                       /\ WF_vars(SelectPending(r))
                       /\ WF_vars(MarkAcknowledged(r))
                       /\ WF_vars(DiscardReply(r))
    /\ \A m \in Reports : WF_vars(CompleteCommand(m))
    /\ \A d \in Devices :
          /\ WF_vars(\E r \in Reqs : StartTick(d, r))
          /\ WF_vars(ReceiveReply(d))
          /\ WF_vars(\E c \in Cmds, ok \in BOOLEAN : ExecuteCommand(d, c, ok))
          /\ WF_vars(ReportResult(d))
          /\ WF_vars(ReportAnswered(d))
          /\ WF_vars(FinishTick(d))
          /\ WF_vars(Logout(d))
          /\ WF_vars(Reboot(d))
          /\ WF_vars(WipeStop(d))

FairSpec == Spec /\ Fairness

-----------------------------------------------------------------------------
(* What the component promises.                                            *)

\* The commands device d has executed.
Executed(d) == {ran[d][i].cmd : i \in DOMAIN ran[d]}

\* A device executes a command at most once, whatever heartbeats it abandons,
\* loses or repeats and however often it restarts: fetchPendingCommands
\* acknowledges before it answers, and only the reply waited for is used.
AtMostOnce ==
    \A d \in Devices : \A i, j \in DOMAIN ran[d] :
        ran[d][i].cmd = ran[d][j].cmd => i = j

\* A result in the table is a result some device it was meant for obtained:
\* the server never shows as completed what nobody executed, nor as failed
\* what succeeded everywhere.
ResultIsTrue ==
    \A c \in Cmds : status[c] \in {"completed", "failed"} =>
        \E d \in Devices : /\ Visible(c, d)
                           /\ \E i \in DOMAIN ran[d] :
                                 ran[d][i] = [cmd |-> c,
                                              ok |-> status[c] = "completed"]

\* Device d has executed a command that ends its agent.
EndedItself(d) == \E i \in DOMAIN ran[d] : kind[ran[d][i].cmd] \in {"reboot", "wipe"}

\* What the server has handed over of command c is still under way for device
\* d: in the answer its agent waits for, in its list, executed but not yet
\* reported, or in a report.
UnderWay(c, d) ==
    \/ cur[d] \in Reqs /\ req[cur[d]].phase = "reply" /\ c \in req[cur[d]].rows
    \/ c \in todo[d]
    \/ mode[d] = "working" /\ doing[d].cmd = c
    \/ \E m \in reports : m.dev = d /\ m.cmd = c

\* As long as nothing has failed, the server acknowledges no command that it
\* then forgets: an acknowledged row is still under way for a device it is
\* meant for, or that device ended its own agent with an earlier command.  The
\* UPDATE takes the ids of the SELECT, so that a row inserted in between, or
\* a row of a batch that nobody waits for, is not marked by accident.
NothingForgotten ==
    faults = MaxFaults =>
        \A c \in Cmds : status[c] = "acknowledged" =>
            \E d \in Devices : Visible(c, d) /\ (UnderWay(c, d) \/ EndedItself(d))

\* An agent that knows its device is locked never sleeps with the session it
\* could have locked open, whatever commands its last tick executed (tick() ends
\* with ensureLocked) and whenever it restarted.  The one open session it may
\* sleep with is one that a logout has started since the last lock.
SleepsLocked ==
    \A d \in Devices :
        mode[d] = "idle" /\ agentLocked[d] => screen[d] \in {"locked", "fresh"}

\* A handler whose agent has given up on it is about to acknowledge.
Abandoned(r) == req[r].phase = "mark" /\ cur[req[r].dev] # r

\* The result of a command sent to one device is final: no second report, no
\* other result and no repeated SELECT replaces it, whatever is lost, times out
\* or restarts.  One thing can: the UPDATE by id of an abandoned heartbeat that
\* has selected the row before it was executed.
ResultsStand ==
    [][\A c \in Cmds :
          /\ status[c] \in {"completed", "failed"} /\ target[c] \in Devices
          /\ status'[c] # status[c]
          => \E r \in Reqs : /\ Abandoned(r) /\ c \in req[r].rows
                             /\ status'[c] = "acknowledged"]_vars

\* A command sent to one device ends with a result, for good.
DirectedCompletes ==
    \A c \in Cmds :
        status[c] = "pending" /\ target[c] \in Devices
            ~> [](status[c] \in {"completed", "failed"})

\* A device that the server keeps locked ends up locked, and stays so: the
\* session that a logout has left open too.
LockIsEnforced ==
    \A d \in Devices :
        <>[]locked[d] => <>[](screen[d] = "locked" \/ mode[d] = "off")

\* A command that the heartbeat has acknowledged is executed.
AcknowledgedIsExecuted ==
    \A c \in Cmds :
        status[c] = "acknowledged" ~> \E d \in Devices : c \in Executed(d)

\* A command for the fleet reaches every device.
FleetReachesAll ==
    \A c \in Cmds, d \in Devices :
        status[c] = "pending" /\ target[c] = Fleet ~> c \in Executed(d)

\* A device that the server keeps unlocked ends up unlocked.
UnlockIsEnforced ==
    \A d \in Devices : <>[]~locked[d] => <>[](screen[d] # "locked")
-----------------------------------------------------------------------------
(* The refinement of CommandDelivery.                                      *)

\* A row exists from the INSERT on.
Row(c) == IF status[c] \in {"none", "posting"} THEN None
          ELSE [to |-> target[c], at |-> created[c]]

Delivery == INSTANCE CommandDelivery WITH
    queued <- [c \in Cmds |-> Row(c)],
    done   <- [d \in Devices |-> [i \in DOMAIN ran[d] |-> ran[d][i].cmd]],
    clock  <- now

\* The control plane and the agents implement the promise: at most once, only
\* where addressed, in creation order, under every interleaving of
\* fetchPendingCommands, abandoned heartbeats and restarts.
DeliversInOrder == Delivery!Spec
=============================================================================
