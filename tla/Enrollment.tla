----------------------------- MODULE Enrollment -----------------------------
(***************************************************************************)
(* How a machine becomes a device of the fleet: the enrollment handler and *)
(* its two tables (server/src/db.ts), the enrolling run of the agent and   *)
(* the configuration file it writes (agent/main.go), and the identity the  *)
(* agent service then presents.                                            *)
(*                                                                         *)
(* Every database statement of the handler is a step, and so are the       *)
(* truncation and the writing of the file.  A run of the agent can be      *)
(* interrupted, and repeated, while the handler still works for it.        *)
(*                                                                         *)
(* Abstractions.  A hash stands for its key.  A missing configuration file *)
(* and one with empty identifiers are the same: both lead to enrollment.   *)
(* The device token is a function of the device's id, and its expiry is    *)
(* not represented.                                                        *)
(***************************************************************************)
EXTENDS Naturals, FiniteSets

CONSTANTS
    Machines,
    Tokens,     \* enrollment tokens the administrators may create
    Ids,        \* device ids the server may give (randomId)
    Keys,       \* device keys the machines may generate (uuidgen)
    Runs,       \* enrolling runs of the agent at the same time (a bound)
    None,
    Faults,     \* what may go wrong; see Fault
    MaxFaults   \* how often (a bound)

ASSUME EnrollmentAssumption ==
    /\ None \notin Machines \cup Tokens \cup Ids \cup Keys
    /\ Faults \subseteq {"drop", "interrupt", "power", "twice"}
    /\ MaxFaults \in Nat

VARIABLES
    token,      \* enrollment_tokens: "absent", "unused" or "used"
    usedBy,     \* its used_by_device_id
    row,        \* devices: the key, and how the row came to be (history)
    run,        \* the enrolling runs, each with its request
    config,     \* the identity in /etc/pallet/agent.json
    broken,     \* that file is not JSON
    agent,      \* the identity the running agent service presents
    faults      \* failures still allowed

vars == <<token, usedBy, row, run, config, broken, agent, faults>>

-----------------------------------------------------------------------------
\* A request is on its way ("sent"), before the INSERT ("insert"), before the
\* UPDATE of its token ("mark") or on its way back ("reply"); then the run
\* has its answer ("save"), or has truncated the file ("write").
Phases == {"free", "sent", "insert", "mark", "reply", "save", "write"}

Identities == [key: Keys \cup {None}, id: Ids \cup {None}]
Nobody == [key |-> None, id |-> None]

\* "late": the token had been used when the request was sent.
Rows  == [key: Keys \cup {None}, via: Tokens \cup {None}, late: BOOLEAN]
NoRow == [key |-> None, via |-> None, late |-> FALSE]

\* "by" is the machine whose process waits, or None when it is gone.
AllRuns == [at: Phases, by: Machines \cup {None}, token: Tokens \cup {None},
            late: BOOLEAN, me: Identities]
FreeRun == [at |-> "free", by |-> None, token |-> None, late |-> FALSE,
            me |-> Nobody]

\* The tables, the files and the processes have the shapes the code gives
\* them: every identifier in one is of the kind its column or field holds.
TypeOK ==
    /\ token  \in [Tokens -> {"absent", "unused", "used"}]
    /\ usedBy \in [Tokens -> Ids \cup {None}]
    /\ row    \in [Ids -> Rows]
    /\ run    \in [Runs -> AllRuns]
    /\ config \in [Machines -> Identities]
    /\ broken \in [Machines -> BOOLEAN]
    /\ agent  \in [Machines -> Identities]
    /\ faults \in Nat

Init ==
    /\ token  = [t \in Tokens |-> "absent"]
    /\ usedBy = [t \in Tokens |-> None]
    /\ row    = [i \in Ids |-> NoRow]
    /\ run    = [r \in Runs |-> FreeRun]
    /\ config = [m \in Machines |-> Nobody]
    /\ broken = [m \in Machines |-> FALSE]
    /\ agent  = [m \in Machines |-> Nobody]
    /\ faults = MaxFaults

\* Failure f is allowed, and this step uses one up.
Fault(f) ==
    /\ f \in Faults
    /\ faults > 0
    /\ faults' = faults - 1

-----------------------------------------------------------------------------
(* The control plane.                                                      *)

\* POST /admin/enrollment-tokens.
CreateToken(t) ==
    /\ token[t] = "absent"
    /\ token' = [token EXCEPT ![t] = "unused"]
    /\ UNCHANGED <<usedBy, row, run, config, broken, agent, faults>>

\* Mutant: whether the token was used is not looked at.
CheckToken_exists(r) ==
    /\ run[r].at = "sent"
    /\ run' = [run EXCEPT ![r] = IF token[@.token] # "absent"
                                 THEN [@ EXCEPT !.at = "insert"] ELSE FreeRun]
    /\ UNCHANGED <<token, usedBy, row, config, broken, agent, faults>>

\* Mutant: the token is claimed for the new device before its row exists.
CheckToken_claims(r) ==
    /\ run[r].at = "sent"
    /\ IF token[run[r].token] = "unused"
       THEN \E i \in Ids : /\ row[i] = NoRow
                           /\ usedBy' = [usedBy EXCEPT ![run[r].token] = i]
       ELSE UNCHANGED usedBy
    /\ run' = [run EXCEPT ![r] = IF token[@.token] = "unused"
                                 THEN [@ EXCEPT !.at = "insert"] ELSE FreeRun]
    /\ UNCHANGED <<token, row, config, broken, agent, faults>>

\* The SELECT of enrollDevice.  A refused run ends (log.Fatalf), and its new
\* key with it.
CheckToken(r) ==
    /\ run[r].at = "sent"
    /\ run' = [run EXCEPT ![r] = IF token[@.token] = "unused"
                                 THEN [@ EXCEPT !.at = "insert"] ELSE FreeRun]
    /\ UNCHANGED <<token, usedBy, row, config, broken, agent, faults>>

\* Mutant: INSERT OR REPLACE, with an id that may exist (the hostname, say).
InsertDevice_replaces(r, i) ==
    /\ run[r].at = "insert"
    /\ row' = [row EXCEPT ![i] = [key |-> run[r].me.key, via |-> run[r].token,
                                  late |-> run[r].late]]
    /\ run' = [run EXCEPT ![r].at = "mark", ![r].me = [key |-> @.key, id |-> i]]
    /\ UNCHANGED <<token, usedBy, config, broken, agent, faults>>

\* Mutant: the handler answers without the UPDATE.
InsertDevice_unpaid(r, i) ==
    /\ run[r].at = "insert"
    /\ row[i] = NoRow
    /\ row' = [row EXCEPT ![i] = [key |-> run[r].me.key, via |-> run[r].token,
                                  late |-> run[r].late]]
    /\ run' = [run EXCEPT ![r].at = "reply", ![r].me = [key |-> @.key, id |-> i]]
    /\ UNCHANGED <<token, usedBy, config, broken, agent, faults>>

\* The INSERT, with a fresh id.
InsertDevice(r, i) ==
    /\ run[r].at = "insert"
    /\ row[i] = NoRow
    /\ row' = [row EXCEPT ![i] = [key |-> run[r].me.key, via |-> run[r].token,
                                  late |-> run[r].late]]
    /\ run' = [run EXCEPT ![r].at = "mark", ![r].me = [key |-> @.key, id |-> i]]
    /\ UNCHANGED <<token, usedBy, config, broken, agent, faults>>

\* Mutant: the two values of the UPDATE are bound in the wrong order.
MarkUsed_swapped(r) ==
    /\ run[r].at = "mark"
    /\ token'  = [token EXCEPT ![run[r].token] = "used"]
    /\ usedBy' = [usedBy EXCEPT ![run[r].token] = run[r].token]
    /\ run' = [run EXCEPT ![r].at = "reply"]
    /\ UNCHANGED <<row, config, broken, agent, faults>>

\* The UPDATE: whatever the token has become since the SELECT.
MarkUsed(r) ==
    /\ run[r].at = "mark"
    /\ token'  = [token EXCEPT ![run[r].token] = "used"]
    /\ usedBy' = [usedBy EXCEPT ![run[r].token] = run[r].me.id]
    /\ run' = [run EXCEPT ![r].at = "reply"]
    /\ UNCHANGED <<row, config, broken, agent, faults>>

\* verifyDeviceKey: the hash of the key is that of the row.
KeyMatches(me) == row[me.id] # NoRow /\ row[me.id].key = me.key

\* requireDevice: a device token names its device; the key is looked at when
\* the request has one.
Known(me) == me.id # None /\ (me.key # None => KeyMatches(me))

-----------------------------------------------------------------------------
(* The machine.                                                            *)

\* The keys that some part of the system still has.
KeysInUse ==
    {run[r].me.key : r \in Runs} \cup {row[i].key : i \in Ids}

\* pallet-agent -enroll-only on a machine whose file has no identity: it
\* makes up a key, which it saves only with the answer, and posts it.  A
\* second run on the same machine is a fault: nothing prevents it.
StartEnroll(m, t, k, r) ==
    /\ run[r].at = "free"
    /\ ~broken[m] /\ config[m].id = None
    /\ k \notin KeysInUse
    /\ IF \E s \in Runs : run[s].by = m THEN Fault("twice")
                                        ELSE UNCHANGED faults
    /\ run' = [run EXCEPT ![r] =
                 [at |-> "sent", by |-> m, token |-> t,
                  late |-> token[t] = "used", me |-> [Nobody EXCEPT !.key = k]]]
    /\ UNCHANGED <<token, usedBy, row, config, broken, agent>>

\* Mutant: the run ends without saving what it got.
ReceiveIdentity_forgets(r) ==
    /\ run[r].at = "reply"
    /\ run' = [run EXCEPT ![r] = FreeRun]
    /\ UNCHANGED <<token, usedBy, row, config, broken, agent, faults>>

\* The answer arrives; nobody waits for that of an interrupted run.
ReceiveIdentity(r) ==
    /\ run[r].at = "reply"
    /\ run' = [run EXCEPT ![r] = IF @.by = None THEN FreeRun
                                 ELSE [@ EXCEPT !.at = "save"]]
    /\ UNCHANGED <<token, usedBy, row, config, broken, agent, faults>>

\* saveConfig: os.WriteFile truncates the file in place,
TruncateConfig(r) ==
    /\ run[r].at = "save"
    /\ config' = [config EXCEPT ![run[r].by] = Nobody]
    /\ broken' = [broken EXCEPT ![run[r].by] = TRUE]
    /\ run' = [run EXCEPT ![r].at = "write"]
    /\ UNCHANGED <<token, usedBy, row, agent, faults>>

\* Mutant: the run saves once more instead of ending.
WriteConfig_again(r) ==
    /\ run[r].at = "write"
    /\ config' = [config EXCEPT ![run[r].by] = run[r].me]
    /\ broken' = [broken EXCEPT ![run[r].by] = FALSE]
    /\ run' = [run EXCEPT ![r].at = "save"]
    /\ UNCHANGED <<token, usedBy, row, agent, faults>>

\* and writes it; the run is over.
WriteConfig(r) ==
    /\ run[r].at = "write"
    /\ config' = [config EXCEPT ![run[r].by] = run[r].me]
    /\ broken' = [broken EXCEPT ![run[r].by] = FALSE]
    /\ run' = [run EXCEPT ![r] = FreeRun]
    /\ UNCHANGED <<token, usedBy, row, agent, faults>>

\* The service starts with an identity.  Without one, or with a file it
\* cannot parse, it ends at once, and systemd starts it again and again.
StartAgent(m) ==
    /\ agent[m] = Nobody
    /\ config[m].id # None
    /\ agent' = [agent EXCEPT ![m] = config[m]]
    /\ UNCHANGED <<token, usedBy, row, run, config, broken, faults>>

-----------------------------------------------------------------------------
(* Failures.                                                               *)

\* The request is lost, its handler dies or its reply is lost: the run ends
\* with an error, and nothing is undone.
Drop(r) ==
    /\ Fault("drop")
    /\ run[r].at \in {"sent", "insert", "mark", "reply"}
    /\ run' = [run EXCEPT ![r] = FreeRun]
    /\ UNCHANGED <<token, usedBy, row, config, broken, agent>>

\* What is left of a run whose process is gone: its request.
Orphaned(q) == IF q.at \in {"save", "write"} THEN FreeRun
                                             ELSE [q EXCEPT !.by = None]

\* Somebody stops the run: http.Post has no time limit of its own.
Interrupt(r) ==
    /\ Fault("interrupt")
    /\ run[r].by # None
    /\ run' = [run EXCEPT ![r] = Orphaned(@)]
    /\ UNCHANGED <<token, usedBy, row, config, broken, agent>>

\* The machine is switched off and on.
PowerCycle(m) ==
    /\ Fault("power")
    /\ run' = [r \in Runs |-> IF run[r].by = m THEN Orphaned(run[r])
                                               ELSE run[r]]
    /\ agent' = [agent EXCEPT ![m] = Nobody]
    /\ UNCHANGED <<token, usedBy, row, config, broken>>

-----------------------------------------------------------------------------
Next ==
    \/ \E t \in Tokens : CreateToken(t)
    \/ \E r \in Runs :
          \/ CheckToken(r)
          \/ \E i \in Ids : InsertDevice(r, i)
          \/ MarkUsed(r)
          \/ \E m \in Machines, t \in Tokens, k \in Keys :
                StartEnroll(m, t, k, r)
          \/ ReceiveIdentity(r)
          \/ TruncateConfig(r)
          \/ WriteConfig(r)
          \/ Drop(r)
          \/ Interrupt(r)
    \/ \E m \in Machines : StartAgent(m) \/ PowerCycle(m)

Spec == Init /\ [][Next]_vars

\* Nobody has to enroll anything and nothing has to fail; what has been
\* started goes on.
Fairness ==
    /\ \A r \in Runs :
          /\ WF_vars(CheckToken(r))
          /\ WF_vars(\E i \in Ids : InsertDevice(r, i))
          /\ WF_vars(MarkUsed(r))
          /\ WF_vars(ReceiveIdentity(r))
          /\ WF_vars(TruncateConfig(r))
          /\ WF_vars(WriteConfig(r))
    /\ \A m \in Machines : WF_vars(StartAgent(m))

FairSpec == Spec /\ Fairness

-----------------------------------------------------------------------------
(* What the component promises.                                            *)

\* The server knows the identity in every machine's file, and the one every
\* running agent presents: whatever runs were interrupted, repeated or lost,
\* key and id come from the same enrollment (requireDevice accepts them).
IdentitiesAreKnown ==
    \A m \in Machines : \A me \in {config[m], agent[m]} :
        me # Nobody => me.key # None /\ Known(me)

\* Two machines never pass for the same device: an id the server gave to one
\* run reaches no other machine.
DistinctDevices ==
    \A m, n \in Machines :
        \A a \in {config[m], agent[m]}, b \in {config[n], agent[n]} :
            a.id # None /\ a.id = b.id => m = n

\* used_by_device_id of a token names a device which that token enrolled, even
\* when a handler died halfway: the row is inserted before the token is marked.
UsedByItsDevice ==
    \A t \in Tokens : usedBy[t] # None => row[usedBy[t]].via = t

\* No machine has an identity whose token can still be used: the token is
\* marked before the answer leaves.
IdentityIsPaid ==
    \A m \in Machines : \A me \in {config[m], agent[m]} :
        me.id # None => token[row[me.id].via] = "used"

\* A request sent after its token was used enrolls nothing: a token enrolls
\* several machines only when their requests overlap.
LateIsRefused == \A i \in Ids : ~row[i].late

\* As long as nothing fails, the server keeps no row that its machine has lost:
\* every row's identity is in a run that a machine still waits for, or in the
\* file of a machine.  Neither a second machine, nor a file truncated before
\* it is written, nor a token refused halfway drops an identity.
NoRowIsLost ==
    faults = MaxFaults =>
        \A i \in Ids : row[i] # NoRow =>
            \/ \E r \in Runs : run[r].by # None /\ run[r].me.id = i
            \/ \E m \in Machines : config[m].id = i

\* As long as nothing fails, every device of the table is a machine whose
\* agent runs: no row is left without its machine.
EveryDeviceServes ==
    \A i \in Ids :
        row[i] # NoRow ~> \/ \E m \in Machines : agent[m].id = i
                          \/ faults < MaxFaults

\* A token enrolls one device.
OneTimeUse ==
    \A i, j \in Ids : row[i] # NoRow /\ row[i].via = row[j].via => i = j
-----------------------------------------------------------------------------
(* The refinement of DeviceIdentities.                                     *)

\* What a row of devices says of its identity.
Issued(i) == IF row[i] = NoRow THEN None
             ELSE [key |-> row[i].key, via |-> row[i].via]

Identity == INSTANCE DeviceIdentities WITH
    issued  <- [i \in Ids |-> Issued(i)],
    spent   <- {t \in Tokens : token[t] = "used"},
    transit <- {run[r].me.id : r \in Runs} \ {None},
    held    <- [m \in Machines |-> {config[m].id, agent[m].id} \ {None}]

\* The handler, the runs and the files implement the promise: an identity is
\* issued once, reaches one machine at most, once, and only when its token is
\* spent, whatever runs overlap, are interrupted or repeated.
IssuesIdentities == Identity!Spec
=============================================================================
