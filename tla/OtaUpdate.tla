------------------------------ MODULE OtaUpdate ------------------------------
(***************************************************************************)
(* The over-the-air update of a machine (agent/updater.go) and the loop of *)
(* the agent that starts it (Run and tick of agent/main.go): heartbeats    *)
(* with their back-off, the token they need, and a goroutine for every     *)
(* heartbeat and every check_updates command that looks for a release and  *)
(* installs it.                                                            *)
(*                                                                         *)
(* An update replaces and restarts the shell, replaces the agent, restarts *)
(* it in the background and writes versions.json; the agent may stop       *)
(* between any two of these steps, and two updates may run at once.        *)
(*                                                                         *)
(* Abstractions.  A binary is the release it comes from.  update-status.json,*)
(* the names of assets and the service of the shell are left out.  When two*)
(* updates have run at once, sharing the ".new" file, what they install may*)
(* be torn.  A rename reaches the disk after what it renames (there is no  *)
(* fsync): on a file system where it does not, a power cut may tear it.    *)
(***************************************************************************)
EXTENDS VersionOrder

CONSTANTS
    Releases,   \* the versions ever published
    First,      \* 1.0.0: what a machine without versions.json claims
    Jobs,       \* updates running at once (a bound)
    Torn,       \* a binary that does not run
    None,       \* no agent runs
    MaxFaults,  \* crashes, failed requests (a bound)
    MaxClicks   \* what administrators, users and time do (a bound)

ASSUME OtaAssumption ==
    /\ First \in Releases
    /\ Releases \subseteq [1..3 -> Nat]
    /\ \A r \in Releases : ~Newer(First, r)
    /\ Torn \notin Releases /\ None \notin Releases
    /\ MaxFaults \in Nat /\ MaxClicks \in Nat

VARIABLES
    token,      \* the device token: "valid" or "expired"
    backoff,    \* seconds until the next attempt after a failed heartbeat
    enabled,    \* updates.enabled of the policy
    auto,       \* updates.auto of the policy
    switch,     \* auto_updates of the machine's settings
    forced,     \* the marker of a check asked for in the settings
    due,        \* the last check is 6 hours old, or was of another process
    latest,     \* the newest release on GitHub
    shellBin,   \* /usr/local/bin/pallet-shell
    agentBin,   \* /usr/local/bin/pallet-agent
    agent,      \* the version of the running agent
    noted,      \* the version of the shell in versions.json
    job,        \* the updates under way
    restart,    \* the agent's restart has been asked for
    overlapped, \* two updates have run at once (history)
    clicks, faults

loop   == <<token, backoff>>
wishes == <<enabled, auto, switch>>
binary == <<shellBin, agentBin, agent>>
ota    == <<forced, due, noted, job, restart, overlapped>>
vars   == <<loop, wishes, latest, binary, ota, clicks, faults>>

-----------------------------------------------------------------------------
Steps == {"idle", "asked", "passed", "entered", "shell", "agent", "note", "noting"}
JobStates == [at : Steps, command : BOOLEAN, auto : BOOLEAN, forced : BOOLEAN,
              target : Releases]
NoJob == [at |-> "idle", command |-> FALSE, auto |-> FALSE, forced |-> FALSE,
          target |-> First]

\* The waits after failed heartbeats: the limit of two minutes is for doubling.
Backoffs == {5, 10, 20, 40, 80, 160}

\* The variables of the agent and the machine have the types the code gives
\* them; the wait after a failure stays below three minutes.
TypeOK ==
    /\ token    \in {"valid", "expired"}
    /\ backoff  \in Backoffs
    /\ enabled  \in BOOLEAN /\ auto \in BOOLEAN /\ switch \in BOOLEAN
    /\ forced   \in BOOLEAN /\ due \in BOOLEAN
    /\ latest   \in Releases
    /\ shellBin \in Releases \cup {Torn}
    /\ agentBin \in Releases \cup {Torn}
    /\ agent    \in Releases \cup {None}
    /\ noted    \in Releases
    /\ job      \in [Jobs -> JobStates]
    /\ restart  \in BOOLEAN /\ overlapped \in BOOLEAN
    /\ clicks   \in Nat /\ faults \in Nat

\* A machine from an image of some release has just started, with the default
\* policy.
Init ==
    /\ token = "valid" /\ backoff = 5
    /\ enabled = TRUE /\ auto = TRUE /\ switch \in BOOLEAN
    /\ forced = FALSE /\ due = TRUE
    /\ latest \in Releases
    /\ shellBin \in Releases /\ ~Newer(shellBin, latest)
    /\ agentBin = shellBin /\ agent = agentBin
    /\ noted = First
    /\ job = [j \in Jobs |-> NoJob]
    /\ restart = FALSE /\ overlapped = FALSE
    /\ clicks = MaxClicks /\ faults = MaxFaults

Click   == clicks > 0 /\ clicks' = clicks - 1 /\ UNCHANGED faults
Fault   == faults > 0 /\ faults' = faults - 1 /\ UNCHANGED clicks
Regular == UNCHANGED <<clicks, faults>>

-----------------------------------------------------------------------------
(* The loop of the agent.                                                  *)

\* A goroutine starts, with a copy of the policy, or with the one that a
\* command makes up.
Start(j, command) ==
    /\ agent # None
    /\ job[j].at = "idle"
    /\ job' = [job EXCEPT ![j] = [NoJob EXCEPT !.at = "asked", !.command = command,
                                              !.auto = command \/ auto]]
    /\ UNCHANGED <<token, wishes, latest, binary, forced, due, noted, restart,
                   overlapped>>

\* A heartbeat is answered, and the policy in the answer starts a check.
TickDone(j) ==
    /\ token = "valid"
    /\ enabled
    /\ Start(j, FALSE)
    /\ backoff' = 5
    /\ Regular

\* An answered heartbeat that starts nothing: the policy has no updates.
TickIdle ==
    /\ token = "valid" /\ agent # None /\ ~enabled
    /\ backoff' = 5
    /\ UNCHANGED <<token, wishes, latest, binary, ota>> /\ Regular

\* The heartbeat carries a check_updates command: a check as if by a policy
\* that enables updates and installs them.
CommandCheck(j) ==
    /\ token = "valid"
    /\ Start(j, TRUE)
    /\ backoff' = 5
    /\ Click

\* Mutant: the wait has no limit.
TickFails_unlimited ==
    /\ agent # None
    /\ \/ token = "expired" /\ Regular
       \/ Fault
    /\ backoff' = 2 * backoff
    /\ UNCHANGED <<token, wishes, latest, binary, ota>>

\* No answer, or 401 for an expired token: the next attempt waits, twice as
\* long as this one below two minutes.
TickFails ==
    /\ agent # None
    /\ \/ token = "expired" /\ Regular
       \/ Fault
    /\ backoff' = IF backoff < 120 THEN 2 * backoff ELSE backoff
    /\ UNCHANGED <<token, wishes, latest, binary, ota>>

\* The token was signed for 30 days, and nothing renews it.
TokenExpires ==
    /\ Click
    /\ token = "valid" /\ token' = "expired"
    /\ UNCHANGED <<backoff, wishes, latest, binary, ota>>

-----------------------------------------------------------------------------
(* maybeApplyUpdates.                                                      *)

Step(j, from, to) ==
    /\ job[j].at = from
    /\ job' = [job EXCEPT ![j].at = to]

\* A check every 6 hours, or when the marker is there: looking ...
Gate(j) ==
    /\ job[j].at = "asked"
    /\ job' = [job EXCEPT ![j] = IF forced \/ due
                                 THEN [@ EXCEPT !.at = "passed", !.forced = forced]
                                 ELSE NoJob]
    /\ UNCHANGED <<loop, wishes, latest, binary, forced, due, noted, restart,
                   overlapped>>
    /\ Regular

\* ... and noting that it happens are two steps, without a lock.
Enter(j) ==
    /\ Step(j, "passed", "entered")
    /\ due' = FALSE
    /\ forced' = (forced /\ ~job[j].forced)
    /\ overlapped' =
           (overlapped \/ \E k \in Jobs \ {j} :
                              job[k].at \in Steps \ {"idle", "asked", "passed"})
    /\ UNCHANGED <<loop, wishes, latest, binary, noted, restart>>
    /\ Regular

\* Mutant: the release is noted as installed before it is.
Check_notes(j) ==
    /\ job[j].at = "entered"
    /\ job' = [job EXCEPT ![j] = [@ EXCEPT !.at = "shell", !.target = latest]]
    /\ noted' = latest
    /\ UNCHANGED <<loop, wishes, latest, binary, forced, due, restart, overlapped>>
    /\ Regular

\* checkForUpdates: the running agent or the noted shell is older.
UpdateAvailable == versionLess(agent, latest) \/ versionLess(noted, latest)

\* The release is installed, if the policy of the start or the settings want it.
Check(j) ==
    /\ job[j].at = "entered"
    /\ job' = [job EXCEPT ![j] =
                  IF UpdateAvailable /\ (job[j].auto \/ switch)
                  THEN [@ EXCEPT !.at = "shell", !.target = latest]
                  ELSE NoJob]
    /\ UNCHANGED <<loop, wishes, latest, binary, forced, due, noted, restart,
                   overlapped>>
    /\ Regular

\* What is renamed over a binary: the release, if no other update has written
\* to the same ".new" file.
Downloaded(j) == {job[j].target} \cup IF overlapped THEN {Torn} ELSE {}

\* Mutant: the error of the shell's download is ignored, as that of its
\* restart is.
InstallShell_ignores(j) ==
    /\ Step(j, "shell", "agent")
    /\ shellBin' \in Downloaded(j) \cup {shellBin}
    /\ UNCHANGED <<loop, wishes, latest, agentBin, agent, forced, due, noted,
                   restart, overlapped>>
    /\ Regular

InstallShell(j) ==
    /\ Step(j, "shell", "agent")
    /\ shellBin' \in Downloaded(j)
    /\ UNCHANGED <<loop, wishes, latest, agentBin, agent, forced, due, noted,
                   restart, overlapped>>
    /\ Regular

\* Mutant: the agent is written in place, and is torn for a while.
InstallAgent_inplace(j) ==
    /\ job[j].at = "agent"
    /\ IF agentBin = Torn
       THEN /\ agentBin' = job[j].target
            /\ job' = [job EXCEPT ![j].at = "note"] /\ restart' = TRUE
       ELSE agentBin' = Torn /\ UNCHANGED <<job, restart>>
    /\ UNCHANGED <<loop, wishes, latest, shellBin, agent, forced, due, noted,
                   overlapped>>
    /\ Regular

\* The restart is left to a goroutine, while the update goes on.
InstallAgent(j) ==
    /\ Step(j, "agent", "note")
    /\ agentBin' \in Downloaded(j)
    /\ restart' = TRUE
    /\ UNCHANGED <<loop, wishes, latest, shellBin, agent, forced, due, noted,
                   overlapped>>
    /\ Regular

\* versions.json is truncated ...
NoteTruncates(j) ==
    /\ Step(j, "note", "noting")
    /\ noted' = First
    /\ UNCHANGED <<loop, wishes, latest, binary, forced, due, restart, overlapped>>
    /\ Regular

\* ... and written.
Note(j) ==
    /\ job[j].at = "noting"
    /\ job' = [job EXCEPT ![j] = NoJob]
    /\ noted' = job[j].target
    /\ UNCHANGED <<loop, wishes, latest, binary, forced, due, restart, overlapped>>
    /\ Regular

\* GitHub does not answer, an asset is missing, a download or a rename fails:
\* what was replaced stays so.
UpdateFails(j) ==
    /\ Fault
    /\ job[j].at \in {"entered", "shell", "agent"}
    /\ job' = [job EXCEPT ![j] = NoJob]
    /\ UNCHANGED <<loop, wishes, latest, binary, forced, due, noted, restart,
                   overlapped>>

-----------------------------------------------------------------------------
(* The process and its surroundings.                                       *)

\* A new process: the binary that is installed, no updates, no back-off.
NewProcess ==
    /\ agent' = IF agentBin = Torn THEN None ELSE agentBin
    /\ backoff' = 5
    /\ due' = TRUE
    /\ job' = [j \in Jobs |-> NoJob]
    /\ restart' = FALSE
    /\ UNCHANGED <<token, wishes, latest, shellBin, agentBin, forced, noted,
                   overlapped>>

\* systemctl restart pallet-agent.
RestartAgent == restart /\ NewProcess /\ Regular

\* A crash, a reboot, a power cut.
Crash == NewProcess /\ Fault

\* 6 hours after a check; an update takes minutes.
DueAgain ==
    /\ \A j \in Jobs : job[j].at \in {"idle", "asked"}
    /\ due' = TRUE
    /\ UNCHANGED <<loop, wishes, latest, binary, forced, noted, job, restart,
                   overlapped>>
    /\ Regular

\* "Check for updates" in the settings.
ForceCheck ==
    /\ Click
    /\ forced' = TRUE
    /\ UNCHANGED <<loop, wishes, latest, binary, due, noted, job, restart,
                   overlapped>>

\* The policy or the settings of the machine change.
Wish ==
    /\ Click
    /\ enabled' \in BOOLEAN /\ auto' \in BOOLEAN /\ switch' \in BOOLEAN
    /\ UNCHANGED <<loop, latest, binary, ota>>

Publish ==
    /\ Click
    /\ latest' \in Releases /\ Newer(latest', latest)
    /\ UNCHANGED <<loop, wishes, binary, ota>>

-----------------------------------------------------------------------------
Work(j) == \/ Gate(j) \/ Enter(j) \/ Check(j) \/ InstallShell(j) \/ InstallAgent(j)
           \/ NoteTruncates(j) \/ Note(j)

Next ==
    \/ \E j \in Jobs : TickDone(j) \/ CommandCheck(j) \/ Work(j) \/ UpdateFails(j)
    \/ TickIdle \/ TickFails \/ TokenExpires
    \/ RestartAgent \/ Crash \/ DueAgain
    \/ ForceCheck \/ Wish \/ Publish

Spec == Init /\ [][Next]_vars

\* The goroutines run, systemd restarts, time passes, and an agent that is
\* answered goes on ticking (strongly fair: the jobs are a bound of the model).
\* Nothing says that versions.json is written before the restart.
Fairness ==
    /\ \A j \in Jobs : WF_vars(Work(j))
    /\ SF_vars(\E j \in Jobs : TickDone(j))
    /\ WF_vars(RestartAgent) /\ SF_vars(DueAgain)
FairSpec == Spec /\ Fairness

-----------------------------------------------------------------------------
\* A machine of which any half is old - the shell, the agent or both, because an
\* update failed, was cut short or has lost its note - does not take itself for
\* up to date: whenever a check looks at the version the agent was built with
\* and the one versions.json claims for the shell, it sees the newer release.
MixedIsSeen ==
    ~overlapped /\ (shellBin # latest \/ agentBin # latest) => UpdateAvailable

\* versions.json never claims a shell that is newer than the installed one,
\* which would never be updated.
NotedIsInstalled == ~overlapped => ~Newer(noted, shellBin)

UpToDate == shellBin = latest /\ agentBin = latest /\ agent = latest

\* A machine that has the latest release of both, and runs it, keeps it until
\* there is a newer one: no update begun earlier, cut short by a restart or
\* repeated because its note was lost takes it back, while no two overlap.
StaysUpToDate ==
    [][UpToDate /\ latest' = latest => UpToDate' \/ overlapped']_vars

\* A machine that wants updates, and whose token lasts, ends for good with the
\* latest release of both, and runs it: an update that failed or was cut short
\* between the shell and the agent is done again.
Updated ==
    <>[](\/ overlapped \/ token = "expired" \/ ~enabled \/ ~(auto \/ switch)
         \/ UpToDate)

\* What README.md:164 promises of the switch in the settings: while it is off
\* and nobody commands an update, nothing is installed.
SwitchHolds ==
    [][<<shellBin, agentBin>>' # <<shellBin, agentBin>>
          => switch \/ \E j \in Jobs : job[j].command]_vars
=============================================================================
