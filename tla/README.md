# Pallet OS in TLA+

Pallet OS turns Chromebooks into managed devices: a control plane (a Cloudflare
Worker over a D1 database), an administrator's dashboard, and on every device a
root agent, a shell service and a desktop session. This directory models the
parts whose correctness depends on the order of steps of several processes,
checks them with TLC on small instances, and proves the safety properties with
TLAPS for every size. Every invariant and every action property that a run
checks is proved; what is left to TLC is liveness. Paths below are relative to `src/`.

## Contents

| Module | What it is |
|---|---|
| `FleetCommands` | the remote-command path: handlers, `commands` table, heartbeat, agent loop, lock state |
| `CommandDelivery` | what the command queue promises, abstractly; `FleetCommands` implements it |
| `Enrollment` | how a machine becomes a device: handler, tables, enrolling run, `agent.json` |
| `DeviceIdentities` | what enrollment promises, abstractly; `Enrollment` implements it |
| `PolicyMerge` | policy documents, `deepMerge`, and what "merged over" means |
| `PolicyPush` | PUTs of policies, the merge in the heartbeat, `applyPolicy`, `apply_policy` commands |
| `AdminConsole` | a page of the dashboard, the administrators' handlers and sessions |
| `ShellSettings` | `settings.json`, the handlers that read and write it, the screen, the settings panel |
| `ShellDesktop` | extends `ShellSettings` with launcher, shelf, launches and restarts of the service |
| `VersionOrder` | `versionLess` of the updater |
| `OtaUpdate` | the loop of the agent with its back-off, and the updates it starts |
| `FleetCommands_proofs`, `FleetDelivery_proofs`, `Enrollment_proofs`, `PolicyPush_proofs`, `AdminConsole_proofs`, `ShellDesktop_proofs`, `OtaUpdate_proofs` | the theorems, one module per component (the refinement has its own) |
| `MC...` | the instances for TLC |

`PROJECT.json` maps every definition to the lines it translates.

## Inventory

State, operations, partners and hard behaviours of each part, and what makes it
correct. "-> X" names the module.

**Command queue** (`server/src/index.ts`, `db.ts`) -> `FleetCommands`.
State: table `commands` (target, kind, status, whole-second `created_at`) and
`devices.locked`. Operations: post a command to a device or to the fleet, fetch
and acknowledge pending ones (in the heartbeat), record a result. Called by the
dashboard and by the agents. Hard: every handler awaits each of its database
statements, so handlers interleave between a SELECT and the UPDATE that follows
it; nothing is in a transaction. Correct when: a device executes a command at
most once and in order; a result is never made up; a command sent to a device
gets a result; a lock is enforced.

**Device agent, command loop** (`agent/main.go`, `policy.go`) ->
`FleetCommands`; the back-off -> `OtaUpdate`. State: `a.locked`, the commands
of the last reply, the lock file in `/run`, goroutines that will log out, reboot or
wipe. Operations: tick, execute, report, lock, unlock. Calls the control plane.
Hard: it may give up on a heartbeat the server still works on, crash, reboot in
the middle of a batch, lose its report; a logout may replace the locked session
by a fresh one at any moment. Correct when: see the queue; it never sleeps with
the session open that it could have locked; and a lock holds in the end.

**Enrollment** (`server/src/db.ts`, `agent/main.go`,
`provision/enroll-device.sh`) -> `Enrollment`. State: tables
`enrollment_tokens` and `devices`, the file `agent.json`. Operations: create a
token, enroll, save, start the service. Hard: a read and an unconditional
update of the token with an INSERT between; runs that are interrupted or
repeated while their request is alive; a file rewritten in place. Correct when:
the server knows every identity a machine has, no two machines share one, and a
token is spent before its identity is used.

**Policy store and merge** (`server/src/db.ts`, `crypto.ts`) and **policy
application** (`agent/policy.go`) -> `PolicyPush`, `PolicyMerge`. State: one
global row, one override per device; on the device the files of browser, shell
and wallpaper, and the Android apps. Operations: put (save, then queue
`apply_policy`), merge in every heartbeat, apply. Hard: the save and the
command are two steps, and the two reads of the merge are two statements; the
payload of an override is not merged; every file is truncated before it is
written; packages are installed and removed by commands of their own; a write
that fails leaves half a policy; a download may never end. Correct when: a
device sees only policies stored for it, any undisturbed tick leaves it with the
effective one, whatever it had, and applying that again disturbs nothing.

**Administrator sessions** (`server/src/crypto.ts`, `index.ts`) and **admin
dashboard** (`dashboard/src`) -> `AdminConsole`. State: tokens; on the page the
token (also in `localStorage`), an interval, the list, the editor, the
enrollment panel. Operations: login, refresh (every 15 s, on a click, after
every change), save, send a command, generate a key, logout, reload. Hard:
answers overtake one another, arrive after a logout, or after the session has
expired. Correct when: the page ends with what the server has, shows an expiry,
and comes to rest after a logout.

**Shell service** (`shell/cmd/pallet-shell`) -> `ShellSettings`,
`ShellDesktop`. State: `settings.json`, the map of running apps. Operations:
read and change settings (truncate, write, apply the display), config, launch,
check for updates. Hard: unlocked read-modify-write of one file, in place,
served in parallel; a restart in the middle. Correct when: nothing the user
asked for is lost and the screen shows what is stored.

**Shell front end** (`shell/frontend/src`) -> `ShellDesktop`, `ShellSettings`.
State: config (polled every 5 s), launcher, panel with data and form (polled
every 8 s) and two buttons that wait. Correct when: forms and shelf come to
agree with the service and no button stays disabled.

**Updates** (`agent/updater.go`) and **device liveness** (`agent/main.go`) ->
`OtaUpdate`, `VersionOrder`. State: two binaries, `versions.json`,
`lastUpdateCheck`, the marker of a forced check, the back-off. Hard: several
update goroutines at once, an unguarded variable, a restart of the process that
races its last writes, mixed versions. Correct when: a machine with mixed
versions does not take itself for up to date, and it ends with the latest release.

**Desktop session and display scripts** (`provision/pallet-session.sh`,
`pallet-shell-launch.sh`, `pallet-x11-display.sh`): see "Not modelled".

The order in which the modules were written follows their weight: commands and
enrollment, which every device depends on; policies; the console; the desktop;
updates. Every module has its parameters in CONSTANTS with named assumptions,
one action per step of the code, and no RECURSIVE operator. `PolicyPush` is
composed with a queue as abstract as `CommandDelivery` (each command delivered
at most once, any order), `ShellDesktop` with `ShellSettings`.

## FleetCommands

### State and actions

| Variable | In the code |
|---|---|
| `status`, `target`, `kind`, `created` | columns of `commands`; "none" is no row, "posting" a handler before its INSERT |
| `locked` | `devices.locked` |
| `now` | `datetime('now')`, in whole seconds |
| `req` | heartbeat requests: on the way, in the handler before its SELECT or its UPDATE, or the reply on the way back |
| `reports` | completion requests on the way |
| `mode`, `cur`, `todo`, `doing` | where the agent's loop is, the request it waits for, the commands it still has to run, the one it reports |
| `agentLocked`, `screen` | `a.locked`; the session: open, locked (with `/run/pallet/locked`), or "fresh", the open one that greetd starts after a logout |
| `ending` | goroutines of `logout`, `reboot` and `wipe` |
| `ran` | history of executions, for the properties only |

One action is one step another process can fall between: the two halves of the
posting handler, the three of the heartbeat handler (`ReadDevice`,
`SelectPending`, `MarkAcknowledged`), the completion, and on the agent the
start of a tick, its reply, each command, each report and its end, and the end
of the tick. A request that the agent gave up stays in `req` until the server
is through with it. `ExecuteCommand` and the failing report follow the code:
the loop goes on after a logout, a reboot or a wipe was scheduled, and it
ignores the error of a report. `Logout` is `loginctl terminate-user` in its
goroutine: the session ends, locked or not, and greetd logs in again; nothing of
the new session looks at `/run/pallet/locked`, so that it stays open until the
next `ensureLocked`.

Failures are single steps, each uses up one of `MaxFaults`: a lost heartbeat,
reply or report, a handler that dies (`DropHeartbeat`, `DropReport`,
`AbortPost`), a time limit (`Timeout`, `ReportTimeout`), a crash with restart
and a power cycle. A crash forgets what the process had scheduled, except that
systemd may have been asked for the reboot already.

Abstractions. The kinds of command that touch nothing of this module are
one kind, "task", which may succeed or fail. The in-handler `setDeviceLocked`
is one step with the arrival of the request. Two rows of one second are
returned in any order (SQLite does not define it). Policy application in the
tick is left to `PolicyPush`; no error of it stops the tick. The back-off of
`Run` and the expiry of the device token are in `OtaUpdate`.

### What the runs check

| Run | Bounds | Properties |
|---|---|---|
| `abandoned_heartbeats` | 1 device, 3 commands, 2 requests, 3 failures of all kinds, seconds 0..1, symmetric | `TypeOK`, `AtMostOnce`, `ResultIsTrue`, `DeliversInOrder`, `ResultsStand` |
| `reliable_fleet` | 2 devices, 2 commands to a device or to the fleet, 2 requests, no failure, fair | `DirectedCompletes` |
| `lock_state` | 1 device, 2 commands of lock, unlock, logout, reboot, wipe, 2 requests, 2 failures, fair | `SleepsLocked`, `NothingForgotten`, `LockIsEnforced` |
| `fleet_command` | 2 devices, 1 command for the fleet, no failure, fair | `FleetReachesAll`, violated |
| `reboot_in_batch` | 1 device, a task and a reboot, no failure, fair | `AcknowledgedIsExecuted`, violated |

The bounds are enough for what the properties compare. A duplicate needs one
command and two overlapping requests of one device; a wrong order needs two
commands of different seconds and a third that arrives between. Three failures
let a request be abandoned, its report be lost and the agent restart. For the
lock two failures are enough to abandon a reply with an old flag and to restart
after it, and two commands to lose one to the reboot of the other. Several
devices that share the rows of the fleet are left to the proofs, which hold for
any number of them.

`NothingForgotten` is the safety half of "a command that was acknowledged is
executed": as long as nothing has failed, each acknowledged row is still on its
way through a device it is meant for, or that device rebooted or wiped itself
on an earlier command. The violated `AcknowledgedIsExecuted` shows that the
exception is needed, `NothingForgotten` that there is no other.

`ResultsStand` says that the result of a command to one device is final, through
lost messages, timeouts and restarts, with one exception that the code has: a
heartbeat that selected the row before it was run, and that its agent has given
up since, still does its UPDATE, by id, and sets the row back to acknowledged.
`completeCommand` looks at no status, so this rests on there being one report per
command, and on the SELECT never returning a row with a result.

`SleepsLocked` says that an agent that knows of the lock sleeps behind a locked
session, or a fresh one: a logout that was run in the same tick, or whose
goroutine is late, leaves a session that is open for up to one interval of the
loop. `LockIsEnforced` says that the next tick ends it.

`LockIsEnforced` and `DirectedCompletes` are about the whole future: the first
says a flag that stays set ends with a screen that stays locked, in spite of
late commands, stale flags, a handler that died before its INSERT, and reboots.

`CHECK_DEADLOCK FALSE` in `lock_state`: a wiped device stays off.

Stated but not promised, and refuted by TLC when asked: `UnlockIsEnforced`
(only the unlock command opens the session; the flag of a heartbeat only locks,
so a lost unlock leaves the screen locked). No document says otherwise. Nor is
anything promised of the results of fleet rows, which any device may set back.

### Fairness

`FairSpec` assumes what the deployments give: an accepted request is served to
its end (weak fairness of each handler step, the worker awaits them in
sequence), an answer reaches its client or is discarded, the agent's `for` loop
never ends, its command loop goes on, and a scheduled logout, reboot or wipe
takes place. Nothing forces administrators, the clock, or failures.
`Fairness` is weak throughout: every action that is fair stays enabled until it
is taken or the process it belongs to is gone.

### What is proved

For all sets of devices, commands and requests, any kinds, targets and faults,
and any bounds:

- `TypeCorrect`: `Spec => []TypeOK`.
- `ExecutesAtMostOnce`: `Spec => []AtMostOnce`. `AtMostOnce` is not inductive:
  it does not say why a command in a reply has not been run. The inductive
  invariant `IInv` adds: an agent waits for a request of its own that is under
  way (`OwnRequest`); the rows a handler holds are rows for its device
  (`RowsStored`), those of an answer are acknowledged (`ReplySettled`), and those
  of the request an agent waits for were not run by it (`RowsFresh`); what is
  still to be run was not run and is acknowledged or further (`TodoFresh`);
  what was run is acknowledged or further, so no SELECT returns it again
  (`RanSettled`). Between the SELECT and the UPDATE the rows are only pending;
  they are safe because the device they are for waits, and runs nothing.
- `ResultsAreTrue`: `Spec => []ResultIsTrue`, from the same invariant, in which a
  report on the way, and the command being reported, are entries of `ran`
  (`ReportsLogged`).
- `SleepsBehindTheLock`: `Spec => []SleepsLocked`. It is not inductive, because an
  agent that gives up a heartbeat goes back to sleep as it left; `LockInv` says
  the same of an agent that waits. A logout may come at any moment, and leads
  from either of the two sessions to the fresh one.
- `ImplementsDelivery`: `Spec => DeliversInOrder`. Steps map to `Queue`,
  `Execute`, `Advance` or a stutter. The order needs `OrderInv`: a row is never
  dated in the future; nothing pending, held by the awaited request or still to
  be run is older than what the device ran; and what is held, or to be run, is
  not younger than what was left pending. It holds because a SELECT returns
  every pending row of the device, so what it leaves out is inserted later and
  carries a second that is not earlier.
- `ResultsAreFinal`: `Spec => ResultsStand`, for all failures. Lemma `OneResult`
  says that what its device still has to report of a directed command is the
  result the table has (it has run it once); `ResultStep` follows the actions that write a status: an INSERT needs a
  row that is not there, a completion writes what is there already, and an UPDATE
  of a heartbeat that is waited for holds only rows that were not run.
- `NothingIsForgotten`: `Spec => []NothingForgotten`, with no such hypothesis. The
  invariant `ForgetInv` says, as long as no failure was used up, that every
  request a handler works on is waited for (`Waited`), unless its device ended
  its own agent; that an agent which is going to end has executed a command
  that says so (`Endings`); and that each acknowledged row is accounted for.
  Lemma `UnderWayStep` follows a command from the reply to `todo`, to the one
  being reported, to the report, and from there to its result.

The only assumptions are `FleetAssumption` (the special values are not elements
of the sets they are added to).

## Enrollment

### State and actions

| Variable | In the code |
|---|---|
| `token`, `usedBy` | `enrollment_tokens` |
| `row` | `devices`: the key (its hash), and which token and request made it (history) |
| `run` | an enrolling process of the agent with its request: on the way, before the INSERT, before the UPDATE, on the way back, then before and in the rewriting of the file |
| `config`, `broken` | `agent.json`: its identity, or not JSON after an interrupted rewriting |
| `agent` | the identity the running service presents |

`CheckToken`, `InsertDevice` and `MarkUsed` are the three statements of
`enrollDevice`; `TruncateConfig` and `WriteConfig` are `os.WriteFile`.
`StartEnroll` makes up a key that nothing else holds (`uuidgen`) and keeps it
in memory until the answer arrives. `StartAgent` is the service reading the
file. Failures: a lost request or answer or a handler that dies (`Drop`), a run
that is stopped (`Interrupt`), a power cycle, and a second run on a machine
that already has one ("twice"). An interrupted run leaves its request alive on
the server.

Abstractions: the hash stands for the key; the device token is a function of
the device's id, and its 30 days are left to `OtaUpdate`; a missing file and
one with empty identifiers are the same.

### What the runs check

`enrollment`: 2 machines, 2 tokens, 3 ids, 3 keys, 2 runs at a time and one
failure of any kind, fair. Three ids and keys leave room for a repeated
enrollment next to both machines; two runs are what it takes for requests to
overlap, on one machine or on two; one failure is enough for any single
interruption, and the proofs cover the rest.

`IssuesIdentities` is the refinement: `Enrollment` implements `DeviceIdentities`,
in which an identity is issued with a key of its own, in transit, and held. The
INSERT issues it and `MarkUsed` spends the token; in transit are the ids that
runs carry; a machine holds the id of its file and that of its running agent.
An identity reaches one machine, once, after it was
paid for, and one that was replaced or lost never comes back.

`NoRowIsLost` is the safety half of `EveryDeviceServes`: until something fails,
the identity of each row is with a run that a machine waits for, or in a file.

`IdentitiesAreKnown` (key and id
of a file or a process come from one enrollment the server knows),
`DistinctDevices`, `UsedByItsDevice`, `IdentityIsPaid`, `LateIsRefused` (only
requests that overlap share a token) and `EveryDeviceServes` (until something
fails, each row gets its machine; after a failure a row may stay orphaned, as a
lost answer is not repeated). Deadlock is off: when every token is used and
every machine enrolled the system may rest.

`one_time_token`: 2 machines, 1 token, no failure: `OneTimeUse` is violated.

Fairness is weak, for the handler's statements, the steps of a run and the start of
the service. Nobody has to enroll anything.

### What is proved

`TypeCorrect`, `MachinesAreKnown`, `DevicesAreDistinct`,
`TokensNameTheirDevice`, `IdentitiesArePaid` and `LateRequestsEnrollNothing`,
each as `Spec => []P`, for any machines, tokens, ids, keys, runs and failures.
The inductive invariant says of each run what its phase has established: after
the INSERT its id and key are a row made with its token, after the UPDATE the
token is used, and a late request is never past its check; rows and used tokens
are never undone (lemma `NothingIsUndone`), so what is saved stays true.
`DistinctDevices` needs a second one: an id is held by one run or one machine.

`ImplementsIdentities` (`Spec => IssuesIdentities`) takes every step to `Issue`,
`Spend`, `Receive`, `Lose` or a stutter. Besides the two invariants it needs
`KeysApart` (a run that has not inserted its row is the only holder of its key,
and no row has it) and `SavesItsOwn` (only a process that still runs writes the
file). Crashes, lost answers and a replaced file are all `Lose`.

`RowsAreKept` (`Spec => []NoRowIsLost`) needs `OneRunEach`: until something fails,
each run belongs to a machine, a machine has one run, and it starts one only
while it has no identity, so that no file with an identity is truncated.

## PolicyMerge and PolicyPush

### State and actions

| Variable | In the code |
|---|---|
| `global`, `override` | `global_policy.policy_json`, `devices.policy_override_json` |
| `put` | a PUT between `setGlobalPolicy` (or the override's) and `queueCommand` |
| `pending` | the `apply_policy` commands nobody has fetched |
| `hb` | a heartbeat: before the global policy is read, before the override is, before the commands are fetched, or its reply |
| `job` | `applyPolicy`: the document, the part that is next, the packages of that part still to be installed or removed, and the payloads still to be applied |
| `files` | the browser's policy file, the wallpaper, the shell's policy file, the installed apps |
| `ever`, `clean` | history of what was stored, and of the devices whose last tick nothing has disturbed, for the properties only |

A document gives each section a leaf, an object or nothing, and an object gives
each field a leaf or nothing; that is what `deepMerge` distinguishes, one level
deep as the policies are. `Spread` is `{...base, ...patch}`. What Go makes of a
document is part of the model: null and missing sections are zero values, a
value of the wrong type makes `encoding/json` refuse the whole heartbeat
(`Decodable`) while a payload is decoded with its error ignored; without a
`chromium` section, or an address of a wallpaper, the old file stays, while
`shell` is always written.

`PutGlobal` and `PutOverride` end with the save, `QueueApply` is the rest.
`ReadGlobal`, `ReadOverride` and `FetchPending` are the three parts of the
heartbeat. `applyPolicy` runs for the reply's policy and then for each payload.
It truncates and then writes each file, in every tick and whether it has changed
or not: `OpenChromium` and `WriteChromium`, `OpenWallpaper` and `CopyWallpaper`,
`OpenShell` and `WriteShell`. Then it installs every forced package
(`InstallNext`), asks what there is (`ListApps`), and removes what the allowlist
does not name (`RemoveNext`), each with a command of its own. Failures, each one
of `MaxFaults`: the handler dies between save and command, a heartbeat or its
reply is lost with the commands it took, a file cannot be opened or written
(`applyPolicy` stops), the download fails or ends early (it goes on), a command
to Waydroid fails (it goes on, or stops at the list), the agent hangs in a
download or a command, which have no time limit, or the machine restarts. A file
that was truncated stays so until it is written again.

Abstractions: the version of a policy (nothing reads it); `shell.json`, which
never changes after the first wallpaper; objects inside the fields.

### What the run checks

`policy_push`: two devices, one of them switched on (the other only shows that
its override goes nowhere else), two PUTs out of three global policies and two
overrides, two failures of any kind, fair (923,325 states). The documents are chosen so that a
null section, a section of a wrong type, a shell policy that only one side has
and an allowlist that forbids a forced app occur. Two PUTs are what it takes for
an announcement to come after the next save, or for the two reads of a heartbeat
to see different moments; two failures let one PUT stay unannounced and a
machine lose its next heartbeat. `CHECK_DEADLOCK FALSE`: an agent that hangs
does nothing more.

- `AppliesWhatWasStored`: what a device sees is a stored override over a stored
  global policy (`IsOver`, path by path), or the payload of a command for it.
- `TickRepairs`: when a tick ends in which nothing failed, nothing was put and no
  command brought another policy, the machine is as its effective policy has it,
  whatever the ticks before left: the browser's policy of one document with the
  shell's of another, truncated files, fields of an override that was applied
  unmerged, packages that are not allowed.
- `Converges`: a machine that runs ends with its effective policy, for good but
  for what a tick rewrites, provided Go accepts it, and its ticks go on ending;
  or its agent hangs.
- `StaysSettled`: a machine that has its effective policy, with nothing on the
  way that says otherwise, keeps it while its agent applies it again, until
  something is put or fails. Two things do change in every tick, and are
  excepted by name: the one file that is just being written (`HasApplied`), and
  the packages that are forced and not allowed, which are installed and then
  removed every 30 s (`Passing`). No other file is touched, and no package that
  is allowed goes, not even for a moment.

The first global policy of the instance forces two packages and allows one, so
that the second comes and goes; the other two set the `chromium` section to null,
or give a field of `shell` a type that Go refuses.

Stated, refuted by TLC when asked, and not a checked promise: `OverrideIsMerged`.
The command for an override carries it as it is (`index.ts:167`), and the agent
applies it alone, over what the heartbeat had brought merged in the same tick.
README.md:144 says "Merged over global" of the override; every heartbeat makes
that true, and `TickRepairs` says that one undisturbed tick is enough.

What the code does and no document promises otherwise: a policy without a
`chromium` section leaves the browser's file of an earlier policy in force beside
the shell's file of the new one (`policy.go:226`), which `FileAgrees` admits; a
reader of a file may find it truncated in any tick; "Apply policy to all" sends an
`apply_policy` without a payload, which does nothing; a stored policy that Go
refuses makes every heartbeat fail until it is replaced, and the commands fetched
with it are lost; a PUT has no version check, so of two editors one overwrites
the other. That what the telemetry asks of Waydroid may hang as well is not
represented.

Fairness is weak, per action: a handler that was called goes on (`QueueApply`,
the parts of the heartbeat), the steps of `applyPolicy` are taken, and the loop
of the agent never ends. That a download and a command end is not assumed:
`Hangs` may take their place while the faults last. Nobody has to put a policy.

### What is proved

For all devices, documents, overrides and failures: `MergeIsOver` (`deepMerge`
computes `IsOver`, for every pair of documents), `TypeCorrect`,
`PoliciesAreStored` (`Spec => []AppliesWhatWasStored`), which needs `OriginInv`:
the global policy and the overrides of the tables were stored, what a heartbeat
has read so far was stored, and the policy of every command, of every payload on
the way and of every job comes from its PUT; history only grows.

`OneTickRepairs` (`Spec => []TickRepairs`) needs `CleanInv`: in a tick that
nothing has disturbed, what the heartbeat has read is the effective policy or
the part of it that was asked for, the job applies it, and each part that is
behind the agent is done (`Progress`): the files are written, what is forced is
installed or still to be, and what is not allowed is gone or still to go.

`PoliciesStay` (`Spec => StaysSettled`): `Settled` is inductive until a PUT or a
failure. It says that the files and packages are those of the effective policy,
and that everything on the way to the device - the two reads of a heartbeat, its
reply, the job - is that policy again (`OnTheWay`). Each step of `applyPolicy`,
applied to what it wrote itself, leaves it in order (`ApplyKeeps`): only a
package that the list does not allow is ever removed.

## AdminConsole

### State and actions

| Variable | In the code |
|---|---|
| `policy`, `locked` | the tables the page shows |
| `session` | tokens of `signAdminJwt`: unused, valid, or past their 24 hours |
| `req` | requests of the page: kind, the token they were sent with, what they carry and bring, and whether the component that waits is still mounted |
| `token`, `stored`, `timer` | the `token` state, `localStorage`, and the token that the interval's closure holds |
| `text`, `shown`, `selected`, `error`, `loading` | states of `page.tsx` |
| `key`, `asking` | states of `EnrollPanel.tsx` |
| `asked` | which session asked for each key, for the properties only |

One action per handler of the server (`ServeDevices` and `ServePolicy` are the
two halves of `Promise.all`), per continuation of the page and per click.
`requireAdmin` is the guard of every handler except the login. `SessionEffect`
is the `useEffect` on the token: it ends one interval and begins another.
`ChangeDone` goes on to refresh with the token its handler began with. An error
of a save or a command is caught nowhere, one of a refresh is shown. `Logout`
unmounts the panel but not the page: its requests go on. `Others` stands for
other administrators and devices.

Abstractions: a policy is a value, a device its lock flag; a text that does not
parse is `Junk`. The copy buttons and the errors inside the panel are left out.

### What the run checks

`admin_console`: one device, two policies, sessions and keys, two requests at a
time, three clicks and one failed request, fair. Two requests are what it takes
for answers to overtake each other, two sessions for the answer of one to reach
the other, three clicks for an edit, a save and a change by somebody else.
`CHECK_DEADLOCK FALSE`: a page whose tokens and clicks are used up may rest
signed out.

- `KeyOfSession`: the key on the screen was asked for by the present session.
- `Converges`: a page that is signed in ends with the list and the policy of
  the server, for good.
- `StaysCurrent`: a page that shows what the server has, with nothing older and
  no change on its way, stays so until somebody clicks: neither a refresh, nor a
  failure, nor a login, nor an expiry brings an older state back.
- `ExpiryIsShown`: a session that has expired ends with a message, for good.
- `QuietAfterLogout`: after a logout, what was under way ends and nothing new
  is asked.

The code does, without promising otherwise: a refresh replaces the editor while
one types (`page.tsx:48`); a late answer may show an older policy until the next
refresh; a failed save or command shows nothing; a request after a logout may
carry the token of the closure it belongs to.

Fairness: requests are served or fail and their answers arrive, effects run, the
interval goes on (weak). The effect is strongly fair because it needs one of the
two slots, which are a bound of the model, not of the browser.

### What is proved

`TypeCorrect` and `KeysAreOfTheSession` (`Spec => []KeyOfSession`), for any
sets and bounds. The invariant says what a request carries (`RequestsMeant`: a
created key stays that of the session that asked), that a panel that waits
asked with the page's session (`PanelInv`), and that at most one login is
waited for, by a page that is signed out (`LoginInv`): the session changes only
where no panel waits.

`CurrentPagesStay` (`Spec => StaysCurrent`) is the safety half of `Converges`. Every
continuation of the page takes what it shows from an answer, and begins a
refresh that has read nothing yet (`Calm`); a change reaches the tables only by
a request that is still to be served, or by `Others`, which takes a click.

## ShellSettings and ShellDesktop

### State and actions

| Variable | In the code |
|---|---|
| `file` | `settings.json`; `Torn` when truncated or when two writes are mixed |
| `screen` | the output as `pallet-x11-display apply` set it |
| `calls` | requests of the panel, with how far the service is: read, truncated, written, applying, answered |
| `open`, `data`, `form`, `saving`, `checking` | the panel and its states in `Settings.tsx` |
| `apps`, `running` | what `buildConfig` offers, and the map of launched apps |
| `shelf`, `launcher`, `asks` | states of `App.tsx`, and its requests |
| `wanted`, `disturbed` | history: what the user asked for; whether a panel was closed while it saved, or a step failed |

A PUT is `ReadSettings`, `TruncateFile`, `WriteFile` and, when it names display
fields, `ReadDisplay` and `SetScreen`; requests are served in parallel, and
nothing in the service keeps them apart. A read of a torn file gives the
defaults. The panel's Apply and switch are disabled while it saves, and a save
ends with a load. `Restart` (an update, a crash) cuts short what the service
does and forgets what runs; `WriteFails` and `SetScreenFails` are a full disk
and a mode the hardware refuses. `LaunchDone` shows an app as running whatever
the answer was.

Abstractions: the display fields are one value; `pallet-x11-display.sh` reads
them one by one, so that `SetScreen` may set any screen when the file was written
in between; telemetry, update status, quick
settings, search and wallpaper are left out. A new request takes the first free
slot, so that slots carry no meaning.

### What the run checks

`shell_desktop`: two display settings, a machine that somebody has configured
(so that a reset shows), two requests of the panel and two of the page at a time,
one app, three clicks, one failure, fair. Two requests are what it takes for a
poll to fall between the steps of a save or to be overtaken, three clicks for
opening, changing and applying.

- `SettingsKept`: unless disturbed, between saves the file holds all the user
  has asked for.
- `ScreenFollows`: likewise the screen shows what is stored.
- `FormConverges`, `ShelfConverges`: an open panel, and the shelf, end with what
  the service has, for good; after disturbances too.
- `ButtonsComeBack`: a disabled button is enabled again, also when a restart
  loses the request.

That it is the panel's disabled buttons alone that make `SettingsKept` hold is
the mutant's point: without them it fails. It fails as well, and is excluded
by `disturbed`, when the panel is closed while it saves and opened again: two
PUTs overlap, one change is lost, or defaults read from a truncated file are
written back. A failed write answers 500, which `saveSettings` does not look at;
a crash between truncation and write loses the settings; the form is reset every
8 s while one edits it. No document promises otherwise.

Fairness: requests that were begun end and are heard (weak); the intervals fire,
strongly fair because the slots are a bound of the model.

### What is proved

`TypeCorrect`, `SettingsAreKept` and `ScreenIsSet`, for any display settings,
apps, requests and bounds. The inductive invariant (`SaveInv`) says that a save,
from its PUT to the load that ends it, is alone and belongs to the open panel
that waits for it, and what it has reached of file, value and screen in each of
its steps (`Reached`).

## VersionOrder and OtaUpdate

### State and actions

| Variable | In the code |
|---|---|
| `token`, `backoff` | the device token (30 days), the wait in `Run` |
| `enabled`, `auto`, `switch` | `updates.enabled` and `updates.auto` of the policy, `auto_updates` of the settings |
| `forced`, `due` | the marker of a forced check; whether `lastUpdateCheck` is 6 hours old |
| `latest` | the newest release (external: GitHub) |
| `shellBin`, `agentBin`, `agent` | the two binaries, the version that runs |
| `noted` | `versions.json`: the shell's version, 1.0.0 when missing or truncated |
| `job` | `maybeApplyUpdates`, one goroutine each |
| `restart` | `systemctl restart pallet-agent`, asked for and not done |
| `overlapped` | history: two updates have run at once |

`TickDone` and `CommandCheck` start a goroutine; `Gate` and `Enter` are the look
at `lastUpdateCheck` and its assignment; `Check` compares versions (`UpdateAvailable`), with the policy the
goroutine was started with and the switch of the moment;
`InstallShell`, `InstallAgent`, `NoteTruncates` and `Note` are the steps of
`applyGitHubRelease` and `writeInstalledVersions`; `RestartAgent` may come
before, between or after the last two. `UpdateFails` leaves what was replaced.
`TickFails` doubles the wait below two minutes, which gives 160 s at most; the
failures of a token that has expired use up no fault. `versionLess` is
three numbers compared as numbers, a missing one 0, texts that differ but name
the same three numbers each less than the other.

Abstractions: a binary is the release it comes from; `update-status.json` is
left out (it shows the old version of the shell until the next check). When two
updates overlap they share the `.new` file, and what is installed from then on
may be torn, for good; nothing prevents it but the six hours between checks, so
the properties exclude it. A rename reaches the disk after what it renames
(the code has no fsync).

### What the runs check

`ota_update`: two goroutines, the releases 1.0.0, 1.9.1 and 1.10.0 (an order that
text or a single number gets wrong), two failures or crashes, one click, fair.
Two failures let an update be cut short between shell and agent and its
repetition too. `CHECK_DEADLOCK FALSE`: a machine whose agent is torn stays so.

- `MixedIsSeen`: a machine of which either half is old - an update was cut short
  between shell and agent, before its note or before its restart - finds that an
  update is available: what the check compares, the running agent and the noted
  shell, never claims more than what is installed.
- `NotedIsInstalled`: `versions.json` never claims a newer shell than the
  installed one, which would never be updated.
- `StaysUpToDate`: a machine with the latest release of both binaries keeps and
  runs it until a newer one is published, whatever update was begun before.
- `Updated`: a machine that wants updates and whose token lasts ends, for good,
  with the latest release of both binaries, and runs it. When the restart wins
  over the note, the update is done once more, and then it rests.

`updates_switch`: with the default policy, no failure and no click, an update is
installed while the switch of the machine is off: `SwitchHolds` is violated.

Fairness: goroutines run and systemd restarts (weak); heartbeats and the six
hours recur (strong: the jobs are a bound, and a check is due again after each).
Nothing says that the note is written before the restart.

### What is proved

`VersionsAreOrdered` (on versions of three numbers `versionLess` is a strict
total order), `TypeCorrect` and `NotesAreTrue`, for any
releases of three numbers, any number of goroutines and bounds. The invariant
`Inv`, while updates have not overlapped: one is busy at a time; note, shell and
latest release are in this order; the target of an update lies between the
note and the latest release; and after the first replacement the shell is the
target.

`UpdatesAreKept` (`Spec => StaysUpToDate`), for updates that do not overlap. It
needs `Behind` besides: the release an update installs is not older than a shell
or an agent it finds, so that what it replaces an up-to-date binary with is the
latest release again.

`MixedIsNeverHidden` (`Spec => []MixedIsSeen`) combines the two with `Running`: the
running agent is never newer than the installed one, nor the note than the shell,
nor either than the latest release; and versions that are not newer than one
another are the same.

## What the findings say

- A command for the fleet is one row with one status. The first heartbeat that
  selects it acknowledges it for all (`db.ts:231`); the dashboard offers it as
  "Apply policy to all" (`page.tsx:201`).
- A command fetched together with a reboot may be acknowledged and never run
  (`main.go:146`); `docs/ARCHITECTURE.md:40-41` says it is executed.
- An enrollment token is "one-time use" (`EnrollPanel.tsx:94`); two requests
  that overlap both enroll with it (`db.ts:107` and `db.ts:126`).
- The switch for automatic updates (README.md:164) has no effect while the
  policy says `auto`, as the default one does (`updater.go:64`).

## What is only model-checked

Liveness, which no installed prover can do: `DirectedCompletes`,
`LockIsEnforced`, `EveryDeviceServes`, `Converges` (of `PolicyPush` and of
`AdminConsole`), `ExpiryIsShown`, `QuietAfterLogout`, `FormConverges`,
`ShelfConverges`, `ButtonsComeBack` and `Updated`.

Where a liveness property says "ends, for good" it has a safety half, and that
half is proved: `StaysSettled` and `TickRepairs` (one undisturbed tick brings the
effective policy, and nothing takes it away again), `StaysCurrent`,
`StaysUpToDate` with `MixedIsSeen`, `ResultsStand` with `NothingForgotten` for
`DirectedCompletes` (a command is never lost without a failure or a reboot, and
its result is final), and `NoRowIsLost` for `EveryDeviceServes`. What remains to
TLC there is that the steps which are due are taken.

## Not modelled

- The scripts of the desktop session (`pallet-session.sh`,
  `pallet-shell-launch.sh` and those they call): they start programs outside the
  repository (X, labwc, a browser) and fall back on what these return. A display
  configuration that a crash leaves moved aside (`pallet-session.sh:75`) is among
  what is not covered.
- The choice of output and mode in `pallet-x11-display.sh`: arithmetic on text
  of `xrandr`, without state.
- The window of 120 s in `isOnline` against a wait of up to 160 s: a comparison
  of durations, which the models do not have.
- A renewal of the device token: there is none (`crypto.ts:72`); `Updated`
  excludes an expired token.
- What a wipe removes: after `WipeStop` the agent is stopped, and the rest is up
  to systemd and the file system.
- Telemetry and its listing (no decision reads it), the installation, image,
  network and hardware scripts (linear I/O), the local server adapter (the same
  statements over another database), rendering.

## Running

    tlc -workers 2 -config reliable_fleet.cfg MCFleetCommands.tla
    tlapm FleetCommands_proofs.tla

`PROJECT.json` lists each run with its module and configuration. The largest,
`admin_console` (1.1 million states), `policy_push` and `shell_desktop`, take a minute or two,
the others less; every proof module takes about a minute or less.
