----------------------------- MODULE PolicyPush -----------------------------
(***************************************************************************)
(* How a policy reaches the machines: the two PUT handlers and the merge   *)
(* in the heartbeat (server/src/index.ts, db.ts), and the agent's          *)
(* applyPolicy (agent/policy.go).                                          *)
(*                                                                         *)
(* The commands a heartbeat brings are as abstract as CommandDelivery has  *)
(* them: each is delivered at most once, and the order, which that module  *)
(* is about, is left open here.  Only the apply_policy commands the PUT    *)
(* handlers queue are represented.                                         *)
(*                                                                         *)
(* Abstractions.  The version of a policy is left out: nothing reads it.   *)
(* A request that its agent gave up counts as lost.  shell.json is left    *)
(* out: it never changes after the first wallpaper.  The lists of packages *)
(* are sets: their order is left open.                                     *)
(***************************************************************************)
EXTENDS Naturals, PolicyMerge

CONSTANTS
    Devices, Fleet, None,
    SwitchedOn,     \* the devices whose agents run
    Puts,           \* the PUT requests of the administrators (a bound)
    Bodies,         \* policies the administrators may put
    Overrides,      \* overrides they may put
    DefaultPolicy,  \* DEFAULT_POLICY
    Null, Bad,      \* leaves: null, and a value of a type that is not expected
    Zero,           \* what Go has for a field that a document lacks
    Broken,         \* a file that is truncated, or was written only in part
    Packages,
    ListOf(_),      \* the packages in the list that a leaf stands for
    Faults,         \* what may go wrong; see Fault
    MaxFaults       \* how often (a bound)

\* What the shell's policy file can be: every field has a value.
ShellConfigs == [Fields -> (Leaves \ {Null, Bad}) \cup {Zero}]

ASSUME PolicyAssumption ==
    /\ Fleet \notin Devices /\ SwitchedOn \subseteq Devices
    /\ None \notin Docs \cup Objects \cup Leaves \cup {Missing}
    /\ Broken \notin Objects \cup Leaves \cup ShellConfigs \cup {None}
    /\ None \notin ShellConfigs /\ Zero \notin Leaves
    /\ {Null, Bad} \subseteq Leaves
    /\ Sections = {"chromium", "wallpaper_url", "shell", "android"}
    /\ {"force_install", "allowlist"} \subseteq Fields
    /\ DefaultPolicy \in Docs /\ Bodies \subseteq Docs /\ Overrides \subseteq Docs
    /\ \A v \in Leaves : ListOf(v) \subseteq Packages
    /\ Faults \subseteq {"server", "drop", "disk", "download", "waydroid",
                         "hang", "restart"}
    /\ MaxFaults \in Nat

VARIABLES
    global,     \* global_policy.policy_json
    override,   \* devices.policy_override_json, or None
    put,        \* the PUT requests
    pending,    \* the apply_policy commands nobody has fetched
    hb,         \* the heartbeat request of each device
    job,        \* what the agent is applying
    files,      \* what it has written
    ever,       \* every policy that was ever stored (history)
    clean,      \* devices whose last tick nothing disturbed (history)
    faults      \* failures still allowed

server == <<global, override, put, ever>>
vars == <<global, override, put, pending, hb, job, files, ever, clean, faults>>

-----------------------------------------------------------------------------
Commands == [to : Devices \cup {Fleet}, policy : Docs \cup {None}]

\* A PUT has stored its policy and has still to queue the command.
AllPuts == [at : {"new", "announce", "done"}, cmd : Commands \cup {None}]

\* A heartbeat: before the global policy is read, before the override is,
\* before the commands are fetched, or with its reply on the way back.
Heartbeats == [at : {"none", "global", "override", "commands", "reply"},
               policy : Docs \cup {None}, payloads : SUBSET Docs]
NoRequest == [at |-> "none", policy |-> None, payloads |-> {}]

\* The parts of applyPolicy, in their order.  A file is open, and truncated, in
\* the part that is named so; apps are the packages still to be installed, or
\* removed.  A "hung" agent waits for an answer that never comes.
Jobs == [at : {"idle", "chromium", "chromium open", "wallpaper", "wallpaper open",
               "shell", "shell open", "install", "remove", "hung"},
         doc : Docs \cup {None}, todo : SUBSET Docs, apps : SUBSET Packages]
Idle == [at |-> "idle", doc |-> None, todo |-> {}, apps |-> {}]

\* applyPolicy is called with document p, and after it with the documents ps.
Apply(p, ps) == [at |-> "chromium", doc |-> p, todo |-> ps, apps |-> {}]

AllFiles == [chromium  : Objects \cup {None, Broken},
             wallpaper : Leaves \cup {None, Broken},
             shell     : ShellConfigs \cup {None, Broken},
             apps      : SUBSET Packages]
NoFiles == [chromium |-> None, wallpaper |-> None, shell |-> None, apps |-> {}]

\* Documents are documents wherever they are: in the tables, in commands and
\* replies, in the agent; and files hold what can be made from them.
TypeOK ==
    /\ global   \in Docs
    /\ override \in [Devices -> Docs \cup {None}]
    /\ put      \in [Puts -> AllPuts]
    /\ pending  \subseteq Commands
    /\ hb       \in [Devices -> Heartbeats]
    /\ job      \in [Devices -> Jobs]
    /\ files    \in [Devices -> AllFiles]
    /\ ever     \in [global : SUBSET Docs,
                     override : [Devices -> SUBSET (Docs \cup {None})]]
    /\ clean    \subseteq Devices
    /\ faults   \in Nat

\* The row starts as '{}'.
Init ==
    /\ global   = [s \in Sections |-> Missing]
    /\ override = [d \in Devices |-> None]
    /\ put      = [p \in Puts |-> [at |-> "new", cmd |-> None]]
    /\ pending  = {}
    /\ hb       = [d \in Devices |-> NoRequest]
    /\ job      = [d \in Devices |-> Idle]
    /\ files    = [d \in Devices |-> NoFiles]
    /\ ever     = [global |-> {DefaultPolicy},
                   override |-> [d \in Devices |-> {None}]]
    /\ clean    = {}
    /\ faults   = MaxFaults

\* Failure f is allowed, and this step uses one up.
Fault(f) ==
    /\ f \in Faults
    /\ faults > 0
    /\ faults' = faults - 1

\* The same for a failure that disturbs the tick of device d.
FaultOf(d, f) == Fault(f) /\ clean' = clean \ {d}

-----------------------------------------------------------------------------
(* The control plane.                                                      *)

getGlobalPolicy == Spread(DefaultPolicy, global)

\* Mutant: the override replaces whole sections.
mergePolicy_shallow(g, o) == IF o = None THEN g ELSE Spread(g, o)

mergePolicy(g, o) == IF o = None THEN g ELSE deepMerge(g, o)

\* The policy the server has for device d now.
Effective(d) == mergePolicy(getGlobalPolicy, override[d])

\* PUT /admin/policy up to setGlobalPolicy.
PutGlobal(p, body) ==
    LET policy == Spread(DefaultPolicy, body) IN
    /\ put[p].at = "new"
    /\ global' = policy
    /\ put' = [put EXCEPT ![p] = [at |-> "announce",
                                  cmd |-> [to |-> Fleet, policy |-> policy]]]
    /\ ever' = [ever EXCEPT !.global = @ \cup {policy}]
    /\ clean' = {}
    /\ UNCHANGED <<override, pending, hb, job, files, faults>>

\* PUT /admin/devices/:id/policy up to setDevicePolicyOverride; None removes
\* the override.  The command carries the override as it is.
PutOverride(p, d, o) ==
    /\ put[p].at = "new"
    /\ override' = [override EXCEPT ![d] = o]
    /\ put' = [put EXCEPT ![p] = [at |-> "announce",
                                  cmd |-> [to |-> d, policy |-> o]]]
    /\ ever' = [ever EXCEPT !.override[d] = @ \cup {o}]
    /\ clean' = clean \ {d}
    /\ UNCHANGED <<global, pending, hb, job, files, faults>>

\* queueCommand.
QueueApply(p) ==
    /\ put[p].at = "announce"
    /\ pending' = pending \cup {put[p].cmd}
    /\ put' = [put EXCEPT ![p] = [at |-> "done", cmd |-> None]]
    /\ UNCHANGED <<global, override, hb, job, files, ever, clean, faults>>

\* The handler dies between the two: the policy is stored and never announced.
ServerDies(p) ==
    /\ Fault("server")
    /\ put[p].at = "announce"
    /\ put' = [put EXCEPT ![p] = [at |-> "done", cmd |-> None]]
    /\ UNCHANGED <<global, override, pending, hb, job, files, ever, clean>>

\* getEffectivePolicy reads the global policy first,
ReadGlobal(d) ==
    /\ hb[d].at = "global"
    /\ hb' = [hb EXCEPT ![d].at = "override", ![d].policy = getGlobalPolicy]
    /\ UNCHANGED <<server, pending, job, files, clean, faults>>

\* Mutant: the override is not looked up.
ReadOverride_never(d) ==
    /\ hb[d].at = "override"
    /\ hb' = [hb EXCEPT ![d].at = "commands"]
    /\ UNCHANGED <<server, pending, job, files, clean, faults>>

\* and then, in a statement of its own, the override.
ReadOverride(d) ==
    /\ hb[d].at = "override"
    /\ hb' = [hb EXCEPT ![d].at = "commands",
                        ![d].policy = mergePolicy(@, override[d])]
    /\ UNCHANGED <<server, pending, job, files, clean, faults>>

PendingFor(d) == {c \in pending : c.to \in {d, Fleet}}

\* Mutant: a command without a policy is delivered as one with an empty policy.
FetchPending_raw(d) ==
    /\ hb[d].at = "commands"
    /\ hb' = [hb EXCEPT ![d].at = "reply",
                        ![d].payloads = {c.policy : c \in PendingFor(d)}]
    /\ pending' = pending \ PendingFor(d)
    /\ UNCHANGED <<server, job, files, clean, faults>>

\* The first heartbeat takes what is for the whole fleet.
FetchPending(d) ==
    /\ hb[d].at = "commands"
    /\ hb' = [hb EXCEPT ![d].at = "reply",
                        ![d].payloads = {c.policy : c \in PendingFor(d)} \ {None}]
    /\ pending' = pending \ PendingFor(d)
    /\ UNCHANGED <<server, job, files, clean, faults>>

\* The request or its reply is lost, with the commands it took.
DropHeartbeat(d) ==
    /\ FaultOf(d, "drop")
    /\ hb[d].at # "none"
    /\ hb' = [hb EXCEPT ![d] = NoRequest]
    /\ UNCHANGED <<server, pending, job, files>>

-----------------------------------------------------------------------------
(* The agent.                                                              *)

StartTick(d) ==
    /\ hb[d].at = "none" /\ job[d].at = "idle"
    /\ hb' = [hb EXCEPT ![d].at = "global"]
    /\ clean' = clean \cup {d}
    /\ UNCHANGED <<server, pending, job, files, faults>>

\* What Go makes of a document (type Policy): a section or a field it lacks,
\* and one that is null or of a wrong type, is the zero value.
Section(p, s) == IF IsObject(p[s]) THEN p[s] ELSE None
ChromiumOf(p) == Section(p, "chromium")
WallpaperOf(p) ==
    IF p["wallpaper_url"] \in Leaves \ {Null, Bad}
    THEN p["wallpaper_url"] ELSE None
FieldOf(p, s, f) ==
    IF IsObject(p[s]) /\ p[s][f] \in Leaves \ {Null, Bad} THEN p[s][f] ELSE Zero
ShellOf(p) == [f \in Fields |-> FieldOf(p, "shell", f)]
PackagesOf(p, f) ==
    IF FieldOf(p, "android", f) = Zero THEN {} ELSE ListOf(FieldOf(p, "android", f))

\* Whether encoding/json accepts the whole document.  The browser's section is
\* a map, in which a field may have any type.
Decodable(p) ==
    /\ \A s \in Sections :
          \/ p[s] \in {Null, Missing}
          \/ p[s] # Bad /\ (IsObject(p[s]) <=> s # "wallpaper_url")
    /\ \A s \in {"shell", "android"} : IsObject(p[s]) => \A f \in Fields : p[s][f] # Bad

\* The reply arrives.  One that does not decode is an error of the tick: the
\* commands it brought are lost.
ReceivePolicy(d) ==
    /\ hb[d].at = "reply"
    /\ hb' = [hb EXCEPT ![d] = NoRequest]
    /\ job' = [job EXCEPT ![d] =
                 IF Decodable(hb[d].policy)
                 THEN Apply(hb[d].policy, hb[d].payloads) ELSE Idle]
    /\ UNCHANGED <<server, pending, files, clean, faults>>

\* applyPolicy is in this part; its next part; the policy it applies.
At(d, part) == job[d].at = part
Goto(d, part) == job' = [job EXCEPT ![d].at = part]
DocOf(d) == job[d].doc

\* A step of applyPolicy that changes the machine's files, or its packages, only.
Applying == UNCHANGED <<server, pending, hb, clean, faults>>

\* writeChromiumPolicy truncates the file; without the section the old one stays.
OpenChromium(d) ==
    /\ At(d, "chromium")
    /\ \/ /\ ChromiumOf(DocOf(d)) = None
          /\ Goto(d, "wallpaper")
          /\ UNCHANGED files
       \/ /\ ChromiumOf(DocOf(d)) # None
          /\ Goto(d, "chromium open")
          /\ files' = [files EXCEPT ![d].chromium = Broken]
    /\ Applying

WriteChromium(d) ==
    /\ At(d, "chromium open")
    /\ files' = [files EXCEPT ![d].chromium = ChromiumOf(DocOf(d))]
    /\ Goto(d, "wallpaper")
    /\ Applying

\* Mutant: a picture that is there is not fetched again.
OpenWallpaper_once(d) ==
    /\ At(d, "wallpaper")
    /\ \/ /\ WallpaperOf(DocOf(d)) = None \/ files[d].wallpaper # None
          /\ Goto(d, "shell")
          /\ UNCHANGED files
       \/ /\ WallpaperOf(DocOf(d)) # None /\ files[d].wallpaper = None
          /\ Goto(d, "wallpaper open")
          /\ files' = [files EXCEPT ![d].wallpaper = Broken]
    /\ Applying

\* downloadWallpaper up to os.Create; without an address the old picture stays.
OpenWallpaper(d) ==
    /\ At(d, "wallpaper")
    /\ \/ /\ WallpaperOf(DocOf(d)) = None
          /\ Goto(d, "shell")
          /\ UNCHANGED files
       \/ /\ WallpaperOf(DocOf(d)) # None
          /\ Goto(d, "wallpaper open")
          /\ files' = [files EXCEPT ![d].wallpaper = Broken]
    /\ Applying

\* io.Copy.
CopyWallpaper(d) ==
    /\ At(d, "wallpaper open")
    /\ files' = [files EXCEPT ![d].wallpaper = WallpaperOf(DocOf(d))]
    /\ Goto(d, "shell")
    /\ Applying

\* writeShellConfig: always, with zero values for what the document lacks.
OpenShell(d) ==
    /\ At(d, "shell")
    /\ files' = [files EXCEPT ![d].shell = Broken]
    /\ Goto(d, "shell open")
    /\ Applying

WriteShell(d) ==
    /\ At(d, "shell open")
    /\ files' = [files EXCEPT ![d].shell = ShellOf(DocOf(d))]
    /\ job' = [job EXCEPT ![d].at = "install",
                          ![d].apps = PackagesOf(DocOf(d), "force_install")]
    /\ Applying

\* The packages that an allowlist, unless it is empty, leaves.
Allowed(p, apps) == IF PackagesOf(p, "allowlist") = {} THEN apps
                    ELSE apps \cap PackagesOf(p, "allowlist")

\* reconcileAndroidApps installs what is forced,
InstallNext(d, q) ==
    /\ At(d, "install") /\ q \in job[d].apps
    /\ files' = [files EXCEPT ![d].apps = @ \cup {q}]
    /\ job' = [job EXCEPT ![d].apps = @ \ {q}]
    /\ Applying

\* Mutant: an empty allowlist allows nothing.
ListApps_strict(d) ==
    /\ At(d, "install") /\ job[d].apps = {}
    /\ job' = [job EXCEPT ![d].at = "remove",
                 ![d].apps = files[d].apps \ PackagesOf(DocOf(d), "allowlist")]
    /\ UNCHANGED files
    /\ Applying

\* then asks what is installed,
ListApps(d) ==
    /\ At(d, "install") /\ job[d].apps = {}
    /\ job' = [job EXCEPT ![d].at = "remove",
                          ![d].apps = files[d].apps \ Allowed(DocOf(d), files[d].apps)]
    /\ UNCHANGED files
    /\ Applying

\* and removes what is not allowed, be it forced or not.
RemoveNext(d, q) ==
    /\ At(d, "remove") /\ q \in job[d].apps
    /\ files' = [files EXCEPT ![d].apps = @ \ {q}]
    /\ job' = [job EXCEPT ![d].apps = @ \ {q}]
    /\ Applying

\* applyPolicy has returned, in whatever way.
Returned(d) == At(d, "remove") /\ job[d].apps = {}
Return(d) == job' = [job EXCEPT ![d].at = "remove", ![d].apps = {}]

\* An apply_policy command.  Its payload is decoded with errors ignored.
NextPayload(d, p) ==
    /\ Returned(d) /\ p \in job[d].todo
    /\ job' = [job EXCEPT ![d] = Apply(p, @.todo \ {p})]
    /\ clean' = IF p = Effective(d) THEN clean ELSE clean \ {d}
    /\ UNCHANGED <<server, pending, hb, files, faults>>

FinishTick(d) ==
    /\ Returned(d) /\ job[d].todo = {}
    /\ job' = [job EXCEPT ![d] = Idle]
    /\ UNCHANGED <<server, pending, hb, files, clean, faults>>

-----------------------------------------------------------------------------
(* Failures of the machine.  None repairs a file that is open.             *)

Failing == UNCHANGED <<server, pending, hb, files>>

\* A file cannot be opened or written: applyPolicy returns, and the tick goes on.
WriteFails(d) ==
    /\ FaultOf(d, "disk")
    /\ \/ At(d, "chromium") /\ ChromiumOf(DocOf(d)) # None
       \/ \E part \in {"chromium open", "shell", "shell open"} : At(d, part)
    /\ Return(d)
    /\ Failing

\* The agent fetches a picture.
Fetching(d) ==
    \/ At(d, "wallpaper") /\ WallpaperOf(DocOf(d)) # None
    \/ At(d, "wallpaper open")

\* The wallpaper cannot be fetched, or only a part of it, or the answer is a
\* page of the server with an error: it is logged, and the rest is applied.
DownloadFails(d) ==
    /\ FaultOf(d, "download")
    /\ Fetching(d)
    /\ Goto(d, "shell")
    /\ Failing

\* A command to Waydroid fails: nothing is made of it.  Without the list the
\* agent leaves it at that.
WaydroidFails(d) ==
    /\ FaultOf(d, "waydroid")
    /\ \/ /\ At(d, "install") \/ At(d, "remove")
          /\ \E q \in job[d].apps : job' = [job EXCEPT ![d].apps = @ \ {q}]
       \/ /\ At(d, "install") /\ job[d].apps = {}
          /\ Return(d)
    /\ Failing

\* Neither the download nor a command to Waydroid has a timeout.
Hangs(d) ==
    /\ FaultOf(d, "hang")
    /\ Fetching(d) \/ At(d, "install") \/ (At(d, "remove") /\ job[d].apps # {})
    /\ Goto(d, "hung")
    /\ Failing

\* The agent or its machine stops and starts again.
Restart(d) ==
    /\ FaultOf(d, "restart")
    /\ job' = [job EXCEPT ![d] = Idle]
    /\ hb' = [hb EXCEPT ![d] = NoRequest]
    /\ UNCHANGED <<server, pending, files>>

-----------------------------------------------------------------------------
ApplyPart(d) ==
    \/ OpenChromium(d) \/ WriteChromium(d)
    \/ OpenWallpaper(d) \/ CopyWallpaper(d)
    \/ OpenShell(d) \/ WriteShell(d)
    \/ \E q \in job[d].apps : InstallNext(d, q) \/ RemoveNext(d, q)
    \/ ListApps(d)

Next ==
    \/ \E p \in Puts :
          \/ \E b \in Bodies : PutGlobal(p, b)
          \/ \E d \in Devices, o \in Overrides \cup {None} : PutOverride(p, d, o)
          \/ QueueApply(p)
          \/ ServerDies(p)
    \/ \E d \in SwitchedOn :
          \/ StartTick(d) \/ ReadGlobal(d) \/ ReadOverride(d) \/ FetchPending(d)
          \/ ReceivePolicy(d) \/ ApplyPart(d)
          \/ \E p \in job[d].todo : NextPayload(d, p)
          \/ FinishTick(d)
          \/ DropHeartbeat(d) \/ WriteFails(d) \/ DownloadFails(d)
          \/ WaydroidFails(d) \/ Hangs(d) \/ Restart(d)

Spec == Init /\ [][Next]_vars

\* Nobody has to put a policy and nothing has to fail.  A handler that has
\* been called goes on, and the loop of the agent never ends.
Fairness ==
    /\ \A p \in Puts : WF_vars(QueueApply(p))
    /\ \A d \in SwitchedOn :
          /\ WF_vars(StartTick(d)) /\ WF_vars(ReadGlobal(d))
          /\ WF_vars(ReadOverride(d)) /\ WF_vars(FetchPending(d))
          /\ WF_vars(ReceivePolicy(d)) /\ WF_vars(ApplyPart(d))
          /\ WF_vars(\E p \in job[d].todo : NextPayload(d, p))
          /\ WF_vars(FinishTick(d))

FairSpec == Spec /\ Fairness

-----------------------------------------------------------------------------
(* What the component promises.                                            *)

\* A policy the server may have for device d: an override that was stored for
\* it, over a global policy that was stored.  The handler reads the two at
\* different moments, so they need not have been stored at the same time.
Stored(d, m) ==
    \E g \in ever.global, o \in ever.override[d] :
        IF o = None THEN m = g ELSE IsOver(m, g, o)

\* What commands may carry besides: a stored global policy, or an override as
\* it is.
Sent(d, m) == Stored(d, m) \/ m \in ever.global \cup ever.override[d]

\* A device only ever sees policies that were stored for it: what it applies
\* is a merge in which the override wins and the rest is global, or the payload
\* of a command that was queued for it, whatever requests overlap; never the
\* override of another device.
AppliesWhatWasStored ==
    \A d \in Devices :
        /\ hb[d].at \in {"commands", "reply"} => Stored(d, hb[d].policy)
        /\ job[d].doc # None => Sent(d, job[d].doc)

\* What device d applies is always the merged policy: the override is laid over
\* the global one before it is acted on (README.md: "Merged over global").
OverrideIsMerged ==
    \A d \in Devices : job[d].doc # None => Stored(d, job[d].doc)

\* File f of device d is what v asks for, if v asks for anything, or the agent
\* is just writing it.  Without a section, or an address, the old file stays in
\* force, whatever policy it is from.
FileAgrees(d, f, v) == v = None \/ files[d][f] = v

\* The packages that are forced and not allowed are there from their install
\* to their remove, in every tick.
Passing(d, p) ==
    {q \in PackagesOf(p, "force_install") :
        At(d, "install") \/ (At(d, "remove") /\ q \in job[d].apps)}

\* What the machine has is what document p asks for, but for the file that the
\* agent is just writing and the packages that are passing.
HasApplied(d, p) ==
    /\ At(d, "chromium open") \/ FileAgrees(d, "chromium", ChromiumOf(p))
    /\ At(d, "wallpaper open") \/ FileAgrees(d, "wallpaper", WallpaperOf(p))
    /\ At(d, "shell open") \/ files[d].shell = ShellOf(p)
    /\ Allowed(p, PackagesOf(p, "force_install")) \subseteq files[d].apps
    /\ files[d].apps \subseteq Allowed(p, files[d].apps) \cup Passing(d, p)

Agrees(d) == HasApplied(d, Effective(d))

\* One undisturbed tick is enough.  Whatever earlier ticks left - a browser's
\* policy without the shell's, a file cut short, packages that are not allowed,
\* the fields of an override that was applied unmerged - when a tick ends in
\* which nothing failed, nothing was put, and no command brought another
\* policy, the machine is as its effective policy has it, in all that it names.
TickRepairs ==
    \A d \in clean :
        hb[d].at = "none" /\ At(d, "idle") /\ Decodable(Effective(d)) => Agrees(d)

\* The commands for device d that nobody has fetched, or are still to be queued.
Announced(d) ==
    {c \in pending \cup {put[p].cmd : p \in {q \in Puts : put[q].at = "announce"}} :
        c.to \in {d, Fleet}}

\* The policies that device d will still apply: of commands, of its heartbeat,
\* and in its agent.
OnTheWay(d) ==
    ({c.policy : c \in Announced(d)} \ {None})
    \cup hb[d].payloads
    \cup (IF hb[d].at \in {"commands", "reply"} THEN {hb[d].policy} ELSE {})
    \cup (IF job[d].at = "idle" THEN {} ELSE {job[d].doc} \cup job[d].todo)

\* Device d has its effective policy, and nothing else is on its way to it.
Settled(d) ==
    /\ Decodable(Effective(d)) /\ Agrees(d)
    /\ OnTheWay(d) \subseteq {Effective(d)}
    /\ hb[d].at = "override" => hb[d].policy = getGlobalPolicy

\* A settled device stays settled until something is put or fails: to apply the
\* policy again, with every heartbeat and by late commands, touches nothing but
\* the file it is just writing and the packages that are forced and not allowed.
\* A package that is allowed never goes, not even for a moment.
StaysSettled ==
    [][\A d \in Devices :
          Settled(d) => \/ Settled(d)'
                        \/ faults' # faults
                        \/ \E p \in Puts : put[p].at = "new" /\ put'[p].at # "new"]_vars

\* Every machine that runs ends with its effective policy, for good but for what
\* a tick rewrites, and its ticks go on ending, unless its agent waits for an
\* answer that never comes.  Handlers that died between saving and announcing,
\* commands that come late with what is no longer stored, lost heartbeats,
\* half-written files and failed downloads are all made up for.  A policy that
\* Go does not accept is never applied.
Converges ==
    \A d \in SwitchedOn :
        \/ <>[]At(d, "hung")
        \/ /\ <>[](Decodable(Effective(d)) => Agrees(d))
           /\ []<>At(d, "idle")
=============================================================================
