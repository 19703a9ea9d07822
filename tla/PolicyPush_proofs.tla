-------------------------- MODULE PolicyPush_proofs --------------------------
(***************************************************************************)
(* Proofs about PolicyMerge and PolicyPush, for every set of sections,     *)
(* fields, leaves, devices and requests and every number of failures.      *)
(***************************************************************************)
EXTENDS PolicyPush, TLAPS

-----------------------------------------------------------------------------
\* Spreading one document over another gives a document with, in every
\* section, what one of them has.
LEMMA SpreadFacts ==
  ASSUME NEW g \in Docs, NEW o \in Docs
  PROVE  /\ Spread(g, o) \in Docs
         /\ \A s \in Sections : Spread(g, o)[s] = IF o[s] = Missing THEN g[s] ELSE o[s]
BY DEF Spread, Docs

\* The same for objects.
LEMMA SpreadObjects ==
  ASSUME NEW g \in Objects, NEW o \in Objects
  PROVE  /\ Spread(g, o) \in Objects
         /\ \A f \in Fields : Spread(g, o)[f] = IF o[f] = Missing THEN g[f] ELSE o[f]
BY DEF Spread, Objects

\* Spreading a document twice over the same base is spreading it once.
LEMMA SpreadTwice ==
  ASSUME NEW g \in Docs, NEW o \in Docs
  PROVE  Spread(g, Spread(g, o)) = Spread(g, o)
<1>1. Spread(g, o) \in Docs /\ Spread(g, Spread(g, o)) \in Docs
  BY SpreadFacts
<1>2. \A s \in Sections : Spread(g, Spread(g, o))[s] = Spread(g, o)[s]
  BY <1>1, SpreadFacts
<1>3. QED
  BY <1>1, <1>2 DEF Docs

\* deepMerge gives a document.
LEMMA MergeType ==
  ASSUME NEW g \in Docs, NEW o \in Docs
  PROVE  deepMerge(g, o) \in Docs
<1>1. ASSUME NEW s \in Sections
      PROVE  deepMerge(g, o)[s] \in Leaves \cup Objects \cup {Missing}
  <2>1. g[s] \in Leaves \cup Objects \cup {Missing} /\ o[s] \in Leaves \cup Objects \cup {Missing}
    BY DEF Docs
  <2>2. IsObject(g[s]) /\ IsObject(o[s]) => Spread(g[s], o[s]) \in Objects
    BY SpreadObjects DEF IsObject
  <2>3. QED
    BY <2>1, <2>2 DEF deepMerge
<1>2. QED
  BY <1>1 DEF deepMerge, Docs

\* deepMerge does what is promised of an override: whatever it has replaces
\* what the global policy has, field by field, and nothing else is changed.
THEOREM MergeIsOver ==
  ASSUME NEW g \in Docs, NEW o \in Docs
  PROVE  IsOver(deepMerge(g, o), g, o)
<1> DEFINE m == deepMerge(g, o)
<1> USE MergeAssumption
<1> SUFFICES ASSUME NEW s \in Sections
             PROVE  /\ o[s] \in Leaves => m[s] = o[s]
                    /\ o[s] = Missing => m[s] = g[s]
                    /\ IsObject(o[s]) =>
                          /\ IsObject(m[s])
                          /\ \A f \in Fields :
                                m[s][f] = IF Has(o, s, f) THEN o[s][f]
                                          ELSE IF Has(g, s, f) THEN g[s][f] ELSE Missing
  BY DEF IsOver
<1>1. o[s] \in Leaves => m[s] = o[s]
  BY DEF deepMerge, IsObject
<1>2. o[s] = Missing => m[s] = g[s]
  BY DEF deepMerge, IsObject
<1>3. ASSUME IsObject(o[s]), IsObject(g[s]), NEW f \in Fields
      PROVE  m[s][f] = IF Has(o, s, f) THEN o[s][f]
                       ELSE IF Has(g, s, f) THEN g[s][f] ELSE Missing
  <2>1. m[s] = Spread(g[s], o[s])
    BY <1>3 DEF deepMerge
  <2>2. m[s][f] = IF o[s][f] = Missing THEN g[s][f] ELSE o[s][f]
    BY <2>1, <1>3, SpreadObjects DEF IsObject
  <2>3. QED
    BY <2>2, <1>3 DEF Has
<1>4. ASSUME IsObject(o[s]), ~IsObject(g[s]), NEW f \in Fields
      PROVE  m[s][f] = IF Has(o, s, f) THEN o[s][f]
                       ELSE IF Has(g, s, f) THEN g[s][f] ELSE Missing
  <2>1. m[s] = o[s]
    BY <1>4 DEF deepMerge, IsObject
  <2>2. QED
    BY <2>1, <1>4 DEF Has
<1>5. IsObject(o[s]) => IsObject(m[s])
  BY SpreadObjects DEF deepMerge, IsObject
<1>6. QED
  BY <1>1, <1>2, <1>3, <1>4, <1>5

\* What the assumptions say of constants.
LEMMA ConstantFacts ==
  /\ DefaultPolicy \in Docs /\ Bodies \subseteq Docs /\ Overrides \subseteq Docs
  /\ None \notin Docs /\ Fleet \notin Devices /\ SwitchedOn \subseteq Devices
BY PolicyAssumption

\* The policy of a device is a document.
LEMMA PolicyType ==
  ASSUME NEW g \in Docs, NEW o \in Docs \cup {None}
  PROVE  mergePolicy(g, o) \in Docs
BY MergeType DEF mergePolicy

LEMMA GlobalType ==
  ASSUME global \in Docs
  PROVE  getGlobalPolicy \in Docs
BY SpreadFacts, ConstantFacts DEF getGlobalPolicy

\* What Go makes of a document has the type of the files it is written to.
LEMMA PartTypes ==
  ASSUME NEW p \in Docs
  PROVE  /\ ChromiumOf(p) \in Objects \cup {None}
         /\ WallpaperOf(p) \in Leaves \cup {None}
         /\ ShellOf(p) \in ShellConfigs
         /\ \A f \in Fields : PackagesOf(p, f) \subseteq Packages
<1>1. ChromiumOf(p) \in Objects \cup {None}
  BY DEF ChromiumOf, Section, IsObject
<1>2. WallpaperOf(p) \in Leaves \cup {None}
  BY DEF WallpaperOf
<1>4. ShellOf(p) \in ShellConfigs
  BY PolicyAssumption DEF ShellOf, FieldOf, ShellConfigs
<1>5. ASSUME NEW f \in Fields PROVE PackagesOf(p, f) \subseteq Packages
  BY PolicyAssumption DEF PackagesOf, FieldOf
<1>6. QED
  BY <1>1, <1>2, <1>4, <1>5

\* What the lists of a document say.
LEMMA ListTypes ==
  ASSUME NEW p \in Docs
  PROVE  /\ PackagesOf(p, "force_install") \subseteq Packages
         /\ \A apps \in SUBSET Packages : Allowed(p, apps) \subseteq apps
BY PartTypes, PolicyAssumption DEF Allowed

-----------------------------------------------------------------------------
\* What is to be installed is forced, and what is to be removed is not allowed.
JobOk(j) ==
    /\ j.at # "idle" => j.doc \in Docs
    /\ j.at = "install" => j.apps \subseteq PackagesOf(j.doc, "force_install")
    /\ j.at = "remove" => j.apps \cap Allowed(j.doc, Packages) = {}

\* With its types, a state has the documents, commands and lists that the next
\* steps read.
TypeInv ==
    /\ TypeOK
    /\ \A p \in Puts : put[p].at = "announce" => put[p].cmd \in Commands
    /\ \A d \in Devices :
          /\ hb[d].at \in {"override", "commands", "reply"} => hb[d].policy \in Docs
          /\ JobOk(job[d])
          /\ hb[d].at = "none" \/ job[d].at = "idle"

\* A step of a device that puts a good job and good files in the place of the
\* old ones, and leaves or ends its heartbeat, keeps the types.
LEMMA DeviceTypes ==
  ASSUME TypeInv, NEW d \in Devices, NEW j \in Jobs, NEW f \in AllFiles,
         NEW h \in Heartbeats,
         job' = [job EXCEPT ![d] = j], files' = [files EXCEPT ![d] = f],
         hb' = [hb EXCEPT ![d] = h],
         JobOk(j), h.at = "none" \/ j.at = "idle",
         h.at \in {"override", "commands", "reply"} => h.policy \in Docs,
         pending' \subseteq pending, UNCHANGED server, faults' \in Nat,
         clean' \subseteq Devices
  PROVE  TypeInv'
<1>1. job' \in [Devices -> Jobs] /\ files' \in [Devices -> AllFiles]
      /\ hb' \in [Devices -> Heartbeats]
  BY DEF TypeInv, TypeOK
<1>2. \A e \in Devices : /\ hb'[e] = IF e = d THEN h ELSE hb[e]
                         /\ job'[e] = IF e = d THEN j ELSE job[e]
  BY DEF TypeInv, TypeOK
<1>3. TypeOK'
  BY <1>1 DEF TypeInv, TypeOK, server
<1>4. QED
  BY <1>2, <1>3 DEF TypeInv, server

LEMMA TypeInvInitially == Init => TypeInv
<1> SUFFICES ASSUME Init PROVE TypeInv
  OBVIOUS
<1>1. global \in Docs
  BY DEF Init, Docs
<1>2. put \in [Puts -> AllPuts] /\ hb \in [Devices -> Heartbeats]
  BY DEF Init, AllPuts, Heartbeats, NoRequest
<1>3. job \in [Devices -> Jobs] /\ files \in [Devices -> AllFiles]
  BY DEF Init, Jobs, Idle, AllFiles, NoFiles
<1>4. faults \in Nat
  BY PolicyAssumption DEF Init
<1>5. TypeOK
  BY <1>1, <1>2, <1>3, <1>4, ConstantFacts DEF Init, TypeOK
<1>6. QED
  BY <1>5 DEF Init, TypeInv, JobOk, NoRequest, Idle

\* Every step keeps the types: the control plane,
LEMMA PutTypes ==
  ASSUME TypeInv, NEW p \in Puts,
         \/ \E b \in Bodies : PutGlobal(p, b)
         \/ \E d \in Devices, o \in Overrides \cup {None} : PutOverride(p, d, o)
         \/ QueueApply(p) \/ ServerDies(p)
  PROVE  TypeInv'
<1> USE ConstantFacts
<1>1. ASSUME NEW b \in Bodies, PutGlobal(p, b) PROVE TypeInv'
  <2> DEFINE policy == Spread(DefaultPolicy, b)
             c == [to |-> Fleet, policy |-> policy]
  <2>1. policy \in Docs /\ c \in Commands /\ [at |-> "announce", cmd |-> c] \in AllPuts
    BY SpreadFacts DEF AllPuts, Commands
  <2>2. ever' \in [global : SUBSET Docs,
                   override : [Devices -> SUBSET (Docs \cup {None})]]
    BY <1>1, <2>1 DEF PutGlobal, TypeInv, TypeOK
  <2>3. TypeOK'
    BY <1>1, <2>1, <2>2 DEF PutGlobal, TypeInv, TypeOK
  <2>4. \A q \in Puts : put'[q] = put[q] \/ put'[q] = [at |-> "announce", cmd |-> c]
    BY <1>1 DEF PutGlobal, TypeInv, TypeOK
  <2>5. QED
    BY <1>1, <2>1, <2>3, <2>4 DEF PutGlobal, TypeInv
<1>2. ASSUME NEW d \in Devices, NEW o \in Overrides \cup {None}, PutOverride(p, d, o)
      PROVE  TypeInv'
  <2> DEFINE c == [to |-> d, policy |-> o]
  <2>1. c \in Commands /\ [at |-> "announce", cmd |-> c] \in AllPuts
    BY DEF AllPuts, Commands
  <2>2. ever' \in [global : SUBSET Docs,
                   override : [Devices -> SUBSET (Docs \cup {None})]]
    BY <1>2 DEF PutOverride, TypeInv, TypeOK
  <2>3. TypeOK'
    BY <1>2, <2>1, <2>2 DEF PutOverride, TypeInv, TypeOK
  <2>4. \A q \in Puts : put'[q] = put[q] \/ put'[q] = [at |-> "announce", cmd |-> c]
    BY <1>2 DEF PutOverride, TypeInv, TypeOK
  <2>5. QED
    BY <1>2, <2>1, <2>3, <2>4 DEF PutOverride, TypeInv
<1>3. ASSUME QueueApply(p) \/ ServerDies(p) PROVE TypeInv'
  <2>1. [at |-> "done", cmd |-> None] \in AllPuts
    BY DEF AllPuts
  <2>2. put[p].cmd \in Commands
    BY <1>3 DEF QueueApply, ServerDies, TypeInv
  <2>3. TypeOK'
    BY <1>3, <2>1, <2>2 DEF QueueApply, ServerDies, Fault, TypeInv, TypeOK
  <2>4. \A q \in Puts : put'[q] = put[q] \/ put'[q] = [at |-> "done", cmd |-> None]
    BY <1>3 DEF QueueApply, ServerDies, TypeInv, TypeOK
  <2>5. QED
    BY <1>3, <2>3, <2>4 DEF QueueApply, ServerDies, TypeInv
<1>4. QED
  BY <1>1, <1>2, <1>3

\* the heartbeat,
LEMMA HeartbeatTypes ==
  ASSUME TypeInv, NEW d \in Devices,
         \/ StartTick(d) \/ ReadGlobal(d) \/ ReadOverride(d) \/ FetchPending(d)
         \/ DropHeartbeat(d) \/ ReceivePolicy(d)
  PROVE  TypeInv'
<1> USE ConstantFacts
<1>1. /\ hb[d] \in Heartbeats /\ job[d] \in Jobs /\ files[d] \in AllFiles
      /\ global \in Docs /\ override[d] \in Docs \cup {None} /\ faults \in Nat
      /\ pending \subseteq Commands /\ clean \subseteq Devices
  BY DEF TypeInv, TypeOK
<1>2. NoRequest \in Heartbeats /\ Idle \in Jobs /\ JobOk(Idle)
  BY DEF NoRequest, Heartbeats, Idle, Jobs, JobOk
<1>3. JobOk(job[d]) /\ (hb[d].at = "none" \/ job[d].at = "idle")
  BY DEF TypeInv
<1>4. job = [job EXCEPT ![d] = job[d]] /\ files = [files EXCEPT ![d] = files[d]]
  BY DEF TypeInv, TypeOK
<1>5. CASE StartTick(d)
  <2>1. [hb[d] EXCEPT !.at = "global"] \in Heartbeats
    BY <1>1 DEF Heartbeats
  <2>2. [hb[d] EXCEPT !.at = "global"].at = "global"
    BY <1>1 DEF Heartbeats
  <2>3. QED
    BY <1>5, <1>1, <1>3, <1>4, <2>1, <2>2, DeviceTypes DEF StartTick
<1>6. CASE ReadGlobal(d)
  <2> DEFINE h == [hb[d] EXCEPT !.at = "override", !.policy = getGlobalPolicy]
  <2>1. h \in Heartbeats /\ h.policy \in Docs
    BY <1>1, GlobalType DEF Heartbeats
  <2>2. hb' = [hb EXCEPT ![d] = h]
    BY <1>6 DEF ReadGlobal
  <2>3. /\ pending' \subseteq pending /\ UNCHANGED server /\ faults' \in Nat
        /\ clean' \subseteq Devices
        /\ job' = [job EXCEPT ![d] = job[d]] /\ files' = [files EXCEPT ![d] = files[d]]
        /\ job[d].at = "idle"
    BY <1>6, <1>1, <1>3, <1>4 DEF ReadGlobal
  <2> HIDE DEF h
  <2>4. QED
    BY <1>1, <1>3, <2>1, <2>2, <2>3, DeviceTypes
<1>7. CASE ReadOverride(d)
  <2> DEFINE h == [hb[d] EXCEPT !.at = "commands",
                                !.policy = mergePolicy(hb[d].policy, override[d])]
  <2>1. hb[d].policy \in Docs
    BY <1>7 DEF ReadOverride, TypeInv
  <2>2. h \in Heartbeats /\ h.policy \in Docs
    BY <1>1, <2>1, PolicyType DEF Heartbeats
  <2>3. hb' = [hb EXCEPT ![d] = h]
    BY <1>7 DEF ReadOverride
  <2>4. /\ pending' \subseteq pending /\ UNCHANGED server /\ faults' \in Nat
        /\ clean' \subseteq Devices
        /\ job' = [job EXCEPT ![d] = job[d]] /\ files' = [files EXCEPT ![d] = files[d]]
        /\ job[d].at = "idle"
    BY <1>7, <1>1, <1>3, <1>4 DEF ReadOverride
  <2> HIDE DEF h
  <2>5. QED
    BY <1>1, <1>3, <2>2, <2>3, <2>4, DeviceTypes
<1>8. CASE FetchPending(d)
  <2> DEFINE h == [hb[d] EXCEPT !.at = "reply",
                                !.payloads = {c.policy : c \in PendingFor(d)} \ {None}]
  <2>1. {c.policy : c \in PendingFor(d)} \ {None} \subseteq Docs
    BY <1>1 DEF PendingFor, Commands
  <2>2. h \in Heartbeats /\ h.policy = hb[d].policy /\ h.at = "reply"
    BY <1>1, <2>1 DEF Heartbeats
  <2>3. hb[d].policy \in Docs
    BY <1>8 DEF FetchPending, TypeInv
  <2>4. hb' = [hb EXCEPT ![d] = h]
    BY <1>8 DEF FetchPending
  <2>5. /\ pending' \subseteq pending /\ UNCHANGED server /\ faults' \in Nat
        /\ clean' \subseteq Devices
        /\ job' = [job EXCEPT ![d] = job[d]] /\ files' = [files EXCEPT ![d] = files[d]]
        /\ job[d].at = "idle"
    BY <1>8, <1>1, <1>3, <1>4 DEF FetchPending
  <2> HIDE DEF h
  <2>6. QED
    BY <1>1, <1>3, <2>2, <2>3, <2>4, <2>5, DeviceTypes
<1>9. CASE DropHeartbeat(d)
  <2>1. NoRequest.at = "none" /\ hb' = [hb EXCEPT ![d] = NoRequest]
    BY <1>9 DEF DropHeartbeat, NoRequest
  <2>2. /\ pending' \subseteq pending /\ UNCHANGED server
        /\ job' = [job EXCEPT ![d] = job[d]] /\ files' = [files EXCEPT ![d] = files[d]]
    BY <1>9, <1>4 DEF DropHeartbeat
  <2>3. faults' \in Nat /\ clean' \subseteq Devices
    BY <1>9, <1>1 DEF DropHeartbeat, Fault, FaultOf
  <2>4. QED
    BY <1>1, <1>2, <1>3, <2>1, <2>2, <2>3, DeviceTypes
<1>10. CASE ReceivePolicy(d)
  <2> DEFINE j == IF Decodable(hb[d].policy)
                  THEN Apply(hb[d].policy, hb[d].payloads) ELSE Idle
  <2>1. hb[d].policy \in Docs
    BY <1>10 DEF ReceivePolicy, TypeInv
  <2>2. j \in Jobs /\ JobOk(j)
    BY <1>1, <1>2, <2>1 DEF Jobs, Heartbeats, Apply, JobOk
  <2>3. job' = [job EXCEPT ![d] = j]
    BY <1>10 DEF ReceivePolicy
  <2>4. NoRequest.at = "none" /\ hb' = [hb EXCEPT ![d] = NoRequest]
    BY <1>10 DEF ReceivePolicy, NoRequest
  <2>5. /\ pending' \subseteq pending /\ UNCHANGED server /\ faults' \in Nat
        /\ clean' \subseteq Devices
        /\ files' = [files EXCEPT ![d] = files[d]]
    BY <1>10, <1>1, <1>4 DEF ReceivePolicy
  <2> HIDE DEF j
  <2>6. QED
    BY <1>1, <1>2, <2>2, <2>3, <2>4, <2>5, DeviceTypes
<1>11. QED
  BY <1>5, <1>6, <1>7, <1>8, <1>9, <1>10

\* and the agent.
LEMMA AgentTypes ==
  ASSUME TypeInv, NEW d \in Devices,
         \/ ApplyPart(d) \/ FinishTick(d) \/ Restart(d)
         \/ \E p \in job[d].todo : NextPayload(d, p)
         \/ WriteFails(d) \/ DownloadFails(d) \/ WaydroidFails(d) \/ Hangs(d)
  PROVE  TypeInv'
<1> DEFINE doc == job[d].doc
<1>1. /\ hb[d] \in Heartbeats /\ job[d] \in Jobs /\ files[d] \in AllFiles
      /\ faults \in Nat /\ clean \subseteq Devices /\ JobOk(job[d])
      /\ hb = [hb EXCEPT ![d] = hb[d]] /\ files = [files EXCEPT ![d] = files[d]]
      /\ job = [job EXCEPT ![d] = job[d]]
      /\ hb[d].at = "none" \/ job[d].at = "idle"
      /\ hb[d].at \in {"override", "commands", "reply"} => hb[d].policy \in Docs
  BY DEF TypeInv, TypeOK
<1>2. ASSUME NEW j \in Jobs, NEW f \in AllFiles, JobOk(j),
             job[d].at # "idle",
             job' = [job EXCEPT ![d] = j], files' = [files EXCEPT ![d] = f],
             UNCHANGED <<server, pending, hb>>, faults' \in Nat, clean' \subseteq Devices
      PROVE  TypeInv'
  BY <1>1, <1>2, DeviceTypes
<1>3. ASSUME NEW part \in {"chromium open", "wallpaper", "wallpaper open", "shell",
                           "shell open", "hung"},
             job[d].at # "idle", Goto(d, part)
      PROVE  \E j \in Jobs : JobOk(j) /\ job' = [job EXCEPT ![d] = j]
  <2> DEFINE j == [job[d] EXCEPT !.at = part]
  <2>1. j \in Jobs /\ JobOk(j)
    BY <1>1, <1>3 DEF Jobs, JobOk
  <2>2. job' = [job EXCEPT ![d] = j]
    BY <1>3 DEF Goto
  <2>3. QED
    BY <2>1, <2>2
<1>4. ASSUME job[d].at # "idle", Return(d)
      PROVE  \E j \in Jobs : JobOk(j) /\ job' = [job EXCEPT ![d] = j]
  <2> DEFINE j == [job[d] EXCEPT !.at = "remove", !.apps = {}]
  <2>1. j \in Jobs /\ JobOk(j)
    BY <1>1, <1>4 DEF Jobs, JobOk
  <2>2. job' = [job EXCEPT ![d] = j]
    BY <1>4 DEF Return
  <2>3. QED
    BY <2>1, <2>2
<1>5. CASE OpenChromium(d) \/ WriteChromium(d) \/ OpenWallpaper(d) \/ CopyWallpaper(d)
           \/ OpenShell(d)
  <2>1. job[d].at # "idle" /\ doc \in Docs
    BY <1>1, <1>5 DEF OpenChromium, WriteChromium, OpenWallpaper, CopyWallpaper, OpenShell,
                      At, JobOk
  <2>2. /\ ChromiumOf(doc) \in Objects \cup {None}
        /\ WallpaperOf(doc) \in Leaves \cup {None}
    BY <2>1, PartTypes
  <2>3. PICK f \in {files[d],
                    [files[d] EXCEPT !.chromium = Broken],
                    [files[d] EXCEPT !.chromium = ChromiumOf(doc)],
                    [files[d] EXCEPT !.wallpaper = Broken],
                    [files[d] EXCEPT !.wallpaper = WallpaperOf(doc)],
                    [files[d] EXCEPT !.shell = Broken]} :
             files' = [files EXCEPT ![d] = f]
    BY <1>1, <1>5 DEF OpenChromium, WriteChromium, OpenWallpaper, CopyWallpaper, OpenShell,
                      DocOf
  <2>4. f \in AllFiles
    BY <1>1, <2>2, <2>3 DEF AllFiles
  <2>5. PICK j \in Jobs : JobOk(j) /\ job' = [job EXCEPT ![d] = j]
    BY <1>3, <1>5, <2>1 DEF OpenChromium, WriteChromium, OpenWallpaper, CopyWallpaper,
                            OpenShell
  <2>6. UNCHANGED <<server, pending, hb, clean, faults>>
    BY <1>5 DEF OpenChromium, WriteChromium, OpenWallpaper, CopyWallpaper, OpenShell,
                Applying
  <2>7. QED
    BY <1>2, <2>1, <2>3, <2>4, <2>5, <2>6, <1>1
<1>6. CASE WriteShell(d)
  <2> DEFINE j == [job[d] EXCEPT !.at = "install",
                                 !.apps = PackagesOf(doc, "force_install")]
             f == [files[d] EXCEPT !.shell = ShellOf(doc)]
  <2>1. doc \in Docs
    BY <1>1, <1>6 DEF WriteShell, At, JobOk
  <2>2. f \in AllFiles
    BY <1>1, <2>1, PartTypes DEF AllFiles
  <2>3. j \in Jobs /\ JobOk(j)
    BY <1>1, <2>1, ListTypes DEF Jobs, JobOk
  <2>4. job' = [job EXCEPT ![d] = j] /\ files' = [files EXCEPT ![d] = f]
    BY <1>6 DEF WriteShell, DocOf
  <2> HIDE DEF j, f
  <2>5. QED
    BY <1>1, <1>2, <1>6, <2>2, <2>3, <2>4 DEF WriteShell, Applying, At
<1>7. ASSUME NEW q \in job[d].apps, job[d].at # "idle",
             job' = [job EXCEPT ![d].apps = @ \ {q}],
             \/ UNCHANGED files
             \/ files' = [files EXCEPT ![d].apps = @ \cup {q}]
             \/ files' = [files EXCEPT ![d].apps = @ \ {q}],
             UNCHANGED <<server, pending, hb>>, faults' \in Nat, clean' \subseteq Devices
      PROVE  TypeInv'
  <2> DEFINE j == [job[d] EXCEPT !.apps = @ \ {q}]
  <2>1. j \in Jobs /\ JobOk(j) /\ q \in Packages
    BY <1>1 DEF Jobs, JobOk
  <2>2. PICK f \in {files[d], [files[d] EXCEPT !.apps = @ \cup {q}],
                    [files[d] EXCEPT !.apps = @ \ {q}]} :
             files' = [files EXCEPT ![d] = f]
    BY <1>1, <1>7
  <2>3. f \in AllFiles
    BY <1>1, <2>1, <2>2 DEF AllFiles
  <2>4. job' = [job EXCEPT ![d] = j]
    BY <1>7
  <2> HIDE DEF j
  <2>5. QED
    BY <1>2, <1>7, <2>1, <2>2, <2>3, <2>4
<1>8. CASE \E q \in job[d].apps : InstallNext(d, q) \/ RemoveNext(d, q)
  BY <1>1, <1>7, <1>8 DEF InstallNext, RemoveNext, Applying, At
<1>9. CASE ListApps(d)
  <2> DEFINE j == [job[d] EXCEPT !.at = "remove",
                     !.apps = files[d].apps \ Allowed(doc, files[d].apps)]
  <2>1. doc \in Docs /\ files[d].apps \subseteq Packages
    BY <1>1, <1>9 DEF ListApps, At, JobOk, AllFiles
  <2>2. j \in Jobs /\ JobOk(j)
    BY <1>1, <2>1 DEF Jobs, JobOk, Allowed
  <2>3. job' = [job EXCEPT ![d] = j]
    BY <1>9 DEF ListApps, DocOf
  <2> HIDE DEF j
  <2>4. QED
    BY <1>1, <1>2, <1>9, <2>2, <2>3 DEF ListApps, Applying, At
<1>10. CASE WriteFails(d) \/ DownloadFails(d) \/ Hangs(d)
           \/ (WaydroidFails(d) /\ Return(d))
  <2>1. job[d].at # "idle"
    BY <1>10 DEF WriteFails, DownloadFails, Hangs, WaydroidFails, Fetching, At
  <2>2. PICK j \in Jobs : JobOk(j) /\ job' = [job EXCEPT ![d] = j]
    BY <1>3, <1>4, <1>10, <2>1 DEF WriteFails, DownloadFails, Hangs
  <2>3. faults' \in Nat /\ clean' \subseteq Devices /\ UNCHANGED <<server, pending, hb, files>>
    <3>1. ASSUME NEW f, FaultOf(d, f) PROVE faults' \in Nat /\ clean' \subseteq Devices
      BY <1>1, <3>1 DEF FaultOf, Fault
    <3>2. QED
      BY <1>10, <3>1 DEF WriteFails, DownloadFails, Hangs, WaydroidFails, Failing
  <2>4. QED
    BY <1>1, <1>2, <2>1, <2>2, <2>3
<1>11. CASE WaydroidFails(d) /\ ~Return(d)
  <2>1. PICK q \in job[d].apps : job' = [job EXCEPT ![d].apps = @ \ {q}]
    BY <1>11 DEF WaydroidFails
  <2>2. /\ faults' \in Nat /\ clean' \subseteq Devices /\ job[d].at # "idle"
        /\ UNCHANGED <<server, pending, hb, files>>
    BY <1>1, <1>11 DEF WaydroidFails, FaultOf, Fault, Failing, At
  <2>3. QED
    BY <1>7, <2>1, <2>2
<1>12. CASE \E p \in job[d].todo : NextPayload(d, p)
  <2>1. PICK p \in job[d].todo : NextPayload(d, p)
    BY <1>12
  <2> DEFINE j == Apply(p, job[d].todo \ {p})
  <2>2. j \in Jobs /\ JobOk(j)
    BY <1>1 DEF Jobs, JobOk, Apply
  <2>3. job' = [job EXCEPT ![d] = j] /\ clean' \subseteq Devices
    BY <1>1, <2>1 DEF NextPayload
  <2> HIDE DEF j
  <2>4. QED
    BY <1>1, <1>2, <2>1, <2>2, <2>3 DEF NextPayload, Returned, At
<1>13. Idle \in Jobs /\ JobOk(Idle) /\ NoRequest \in Heartbeats /\ NoRequest.at = "none"
  BY DEF Idle, Jobs, JobOk, NoRequest, Heartbeats
<1>14. CASE FinishTick(d)
  BY <1>1, <1>2, <1>13, <1>14 DEF FinishTick, Returned, At
<1>15. CASE Restart(d)
  <2>1. faults' \in Nat /\ clean' \subseteq Devices
    BY <1>1, <1>15 DEF Restart, FaultOf, Fault
  <2>2. /\ pending' \subseteq pending /\ UNCHANGED server /\ files' = files
        /\ job' = [job EXCEPT ![d] = Idle] /\ hb' = [hb EXCEPT ![d] = NoRequest]
    BY <1>15 DEF Restart
  <2>3. QED
    BY <1>1, <1>13, <2>1, <2>2, DeviceTypes
<1>16. QED
  BY <1>5, <1>6, <1>8, <1>9, <1>10, <1>11, <1>12, <1>14, <1>15 DEF ApplyPart

LEMMA TypeInvInvariant == Spec => []TypeInv
<1>1. TypeInv /\ [Next]_vars => TypeInv'
  <2> SUFFICES ASSUME TypeInv, [Next]_vars PROVE TypeInv'
    OBVIOUS
  <2>1. CASE UNCHANGED vars
    BY <2>1 DEF TypeInv, TypeOK, vars
  <2>2. CASE Next
    <3> USE ConstantFacts
    <3>1. ASSUME NEW p \in Puts,
                 \/ \E b \in Bodies : PutGlobal(p, b)
                 \/ \E d \in Devices, o \in Overrides \cup {None} : PutOverride(p, d, o)
                 \/ QueueApply(p) \/ ServerDies(p)
          PROVE  TypeInv'
      BY <3>1, PutTypes
    <3>2. ASSUME NEW d \in SwitchedOn,
                 \/ StartTick(d) \/ ReadGlobal(d) \/ ReadOverride(d)
                 \/ FetchPending(d) \/ DropHeartbeat(d) \/ ReceivePolicy(d)
          PROVE  TypeInv'
      BY <3>2, HeartbeatTypes
    <3>3. ASSUME NEW d \in SwitchedOn,
                 \/ ApplyPart(d) \/ FinishTick(d) \/ Restart(d)
                 \/ \E p \in job[d].todo : NextPayload(d, p)
                 \/ WriteFails(d) \/ DownloadFails(d) \/ WaydroidFails(d) \/ Hangs(d)
          PROVE  TypeInv'
      BY <3>3, AgentTypes
    <3>4. QED
      BY <2>2, <3>1, <3>2, <3>3 DEF Next
  <2>3. QED
    BY <2>1, <2>2
<1>2. QED
  BY <1>1, TypeInvInitially, PTL DEF Spec

\* Every state of the specification has its types: documents stay documents
\* through merging, queueing, sending and applying, and files hold what can
\* be made of them.
THEOREM TypeCorrect == Spec => []TypeOK
<1>1. TypeInv => TypeOK
  BY DEF TypeInv
<1>2. QED
  BY <1>1, TypeInvInvariant, PTL
-----------------------------------------------------------------------------
\* What a command for device d may carry.
Carried(d) == ever.global \cup ever.override[d]

\* The command c is only for devices that it may go to.
Fits(c) == \A d \in Devices : c.to \in {d, Fleet} => c.policy \in Carried(d) \cup {None}

\* Where the policies of device d come from, at every place they pass.
Origins(d) ==
    /\ override[d] \in ever.override[d]
    /\ hb[d].at = "override" => hb[d].policy \in ever.global
    /\ hb[d].at \in {"commands", "reply"} => Stored(d, hb[d].policy)
    /\ hb[d].payloads \subseteq Carried(d)
    /\ job[d].doc # None => Sent(d, job[d].doc)
    /\ job[d].todo \subseteq Carried(d)

OriginInv ==
    /\ TypeInv
    /\ getGlobalPolicy \in ever.global
    /\ \A p \in Puts : put[p].at = "announce" => Fits(put[p].cmd)
    /\ \A c \in pending : Fits(c)
    /\ \A d \in Devices : Origins(d)

\* What was stored once stays in the history.
Grows ==
    /\ ever.global \subseteq ever'.global
    /\ \A d \in Devices : ever.override[d] \subseteq ever'.override[d]

LEMMA GrowingKeeps ==
  ASSUME Grows, NEW d \in Devices
  PROVE  /\ Carried(d) \subseteq Carried(d)'
         /\ \A m : Stored(d, m) => Stored(d, m)'
         /\ \A m : Sent(d, m) => Sent(d, m)'
<1>1. Carried(d) \subseteq Carried(d)'
  BY DEF Grows, Carried
<1>2. ASSUME NEW m, Stored(d, m) PROVE Stored(d, m)'
  <2>1. PICK g \in ever.global, o \in ever.override[d] :
           IF o = None THEN m = g ELSE IsOver(m, g, o)
    BY <1>2 DEF Stored
  <2>2. g \in ever'.global /\ o \in ever'.override[d]
    BY <2>1 DEF Grows
  <2>3. QED
    BY <2>1, <2>2 DEF Stored
<1>3. ASSUME NEW m, Sent(d, m) PROVE Sent(d, m)'
  BY <1>1, <1>2, <1>3 DEF Sent, Carried
<1>4. QED
  BY <1>1, <1>2, <1>3

\* A command that fits goes on fitting.
LEMMA FittingKeeps ==
  ASSUME Grows, NEW c, Fits(c)
  PROVE  Fits(c)'
BY GrowingKeeps DEF Fits

\* A PUT handler touches nothing of a device but its override.
LEMMA ServerKeepsOrigins ==
  ASSUME OriginInv, Grows, UNCHANGED <<hb, job>>, NEW d \in Devices,
         override'[d] \in ever'.override[d]
  PROVE  Origins(d)'
<1>1. Origins(d)
  BY DEF OriginInv
<1>2. Carried(d) \subseteq Carried(d)'
  BY GrowingKeeps
<1>3. hb[d].at \in {"commands", "reply"} => Stored(d, hb[d].policy)'
  BY <1>1, GrowingKeeps DEF Origins
<1>4. job[d].doc # None => Sent(d, job[d].doc)'
  BY <1>1, GrowingKeeps DEF Origins
<1>5. QED
  BY <1>1, <1>2, <1>3, <1>4 DEF Origins, Grows, Carried, Stored, Sent

LEMMA OriginsInitially == Init => OriginInv
<1> SUFFICES ASSUME Init PROVE OriginInv
  OBVIOUS
<1>1. getGlobalPolicy \in ever.global
  <2>1. [s \in Sections |-> Missing] \in Docs
    BY DEF Docs
  <2>2. getGlobalPolicy = DefaultPolicy
    BY <2>1, SpreadFacts, ConstantFacts DEF Init, getGlobalPolicy, Docs
  <2>3. QED
    BY <2>2 DEF Init
<1>2. ASSUME NEW d \in Devices PROVE Origins(d)
  BY DEF Init, Origins, NoRequest, Idle
<1>3. QED
  BY <1>1, <1>2, TypeInvInitially DEF Init, OriginInv
\* The control plane keeps the origins: a policy is in the history from the
\* step that stores it, before any command or heartbeat can carry it.
LEMMA PutOrigins ==
  ASSUME OriginInv, TypeInv', NEW p \in Puts,
         \/ \E b \in Bodies : PutGlobal(p, b)
         \/ \E d \in Devices, o \in Overrides \cup {None} : PutOverride(p, d, o)
         \/ QueueApply(p) \/ ServerDies(p)
  PROVE  OriginInv'
<1> USE ConstantFacts
<1>1. /\ put \in [Puts -> AllPuts] /\ global \in Docs
      /\ ever \in [global : SUBSET Docs,
                   override : [Devices -> SUBSET (Docs \cup {None})]]
  BY DEF OriginInv, TypeInv, TypeOK
<1>2. ASSUME NEW b \in Bodies, PutGlobal(p, b) PROVE OriginInv'
  <2> DEFINE policy == Spread(DefaultPolicy, b)
             c == [to |-> Fleet, policy |-> policy]
  <2>1. /\ policy \in ever'.global /\ ever.global \subseteq ever'.global
        /\ ever'.override = ever.override
    BY <1>1, <1>2 DEF PutGlobal
  <2>2. Grows
    BY <2>1 DEF Grows
  <2>3. getGlobalPolicy' = policy
    BY <1>2, SpreadTwice DEF PutGlobal, getGlobalPolicy
  <2>4. Fits(c)'
    BY <2>1 DEF Fits, Carried
  <2>5. \A q \in Puts : put'[q] = put[q] \/ put'[q] = [at |-> "announce", cmd |-> c]
    BY <1>1, <1>2 DEF PutGlobal
  <2> HIDE DEF c, policy
  <2>6. (\A q \in Puts : put[q].at = "announce" => Fits(put[q].cmd))'
    BY <2>2, <2>4, <2>5, GrowingKeeps DEF OriginInv, Fits
  <2>7. \A x \in pending' : Fits(x)'
    BY <1>2, <2>2, FittingKeeps DEF PutGlobal, OriginInv
  <2>8. \A d \in Devices : override'[d] \in ever'.override[d]
    BY <1>2, <2>1 DEF PutGlobal, OriginInv, Origins
  <2>9. \A d \in Devices : Origins(d)'
    BY <1>2, <2>2, <2>8, ServerKeepsOrigins DEF PutGlobal
  <2>10. QED
    BY <2>1, <2>3, <2>6, <2>7, <2>9 DEF OriginInv
<1>3. ASSUME NEW d \in Devices, NEW o \in Overrides \cup {None}, PutOverride(p, d, o)
      PROVE  OriginInv'
  <2> DEFINE c == [to |-> d, policy |-> o]
  <2>1. /\ o \in ever'.override[d] /\ ever'.global = ever.global
        /\ \A e \in Devices : ever.override[e] \subseteq ever'.override[e]
    BY <1>1, <1>3 DEF PutOverride
  <2>2. Grows
    BY <2>1 DEF Grows
  <2>3. getGlobalPolicy' \in ever'.global
    BY <1>3, <2>1 DEF PutOverride, OriginInv, getGlobalPolicy
  <2>4. Fits(c)'
    BY <2>1 DEF Fits, Carried
  <2>5. \A q \in Puts : put'[q] = put[q] \/ put'[q] = [at |-> "announce", cmd |-> c]
    BY <1>1, <1>3 DEF PutOverride
  <2> HIDE DEF c
  <2>6. (\A q \in Puts : put[q].at = "announce" => Fits(put[q].cmd))'
    BY <2>2, <2>4, <2>5, GrowingKeeps DEF OriginInv, Fits
  <2>7. \A x \in pending' : Fits(x)'
    BY <1>3, <2>2, FittingKeeps DEF PutOverride, OriginInv
  <2>8. \A e \in Devices : override'[e] = IF e = d THEN o ELSE override[e]
    BY <1>3 DEF PutOverride, OriginInv, TypeInv, TypeOK
  <2>9. \A e \in Devices : override'[e] \in ever'.override[e]
    BY <2>1, <2>8 DEF OriginInv, Origins
  <2>10. \A e \in Devices : Origins(e)'
    BY <1>3, <2>2, <2>9, ServerKeepsOrigins DEF PutOverride
  <2>11. QED
    BY <2>3, <2>6, <2>7, <2>10 DEF OriginInv
<1>4. ASSUME QueueApply(p) \/ ServerDies(p) PROVE OriginInv'
  <2>1. Grows /\ UNCHANGED <<hb, job, global, override, ever>>
    BY <1>4 DEF Grows, QueueApply, ServerDies
  <2>2. put[p].at = "announce"
    BY <1>4 DEF QueueApply, ServerDies
  <2>3. \A x \in pending' : Fits(x)'
    BY <1>4, <2>1, <2>2, FittingKeeps DEF QueueApply, ServerDies, OriginInv
  <2>4. \A q \in Puts : put'[q] = put[q] \/ put'[q] = [at |-> "done", cmd |-> None]
    BY <1>4, <1>1 DEF QueueApply, ServerDies
  <2>5. (\A q \in Puts : put[q].at = "announce" => Fits(put[q].cmd))'
    BY <2>1, <2>4, GrowingKeeps DEF OriginInv, Fits
  <2>6. \A e \in Devices : Origins(e)'
    BY <2>1, ServerKeepsOrigins DEF OriginInv, Origins
  <2>7. QED
    BY <2>1, <2>3, <2>5, <2>6 DEF OriginInv, getGlobalPolicy
<1>5. QED
  BY <1>2, <1>3, <1>4

\* A step of device d keeps the origins when it keeps its own.
LEMMA DeviceOrigins ==
  ASSUME OriginInv, TypeInv', NEW d \in Devices, UNCHANGED server,
         pending' \subseteq pending,
         \A e \in Devices \ {d} : hb'[e] = hb[e] /\ job'[e] = job[e],
         Origins(d)'
  PROVE  OriginInv'
<1>1. UNCHANGED <<global, override, put, ever>> /\ Grows
  BY DEF server, Grows
<1>2. ASSUME NEW e \in Devices \ {d} PROVE Origins(e)'
  BY <1>1 DEF OriginInv, Origins, Stored, Sent, Carried
<1>3. \A c \in pending : Fits(c)'
  BY <1>1, FittingKeeps DEF OriginInv
<1>4. (\A q \in Puts : put[q].at = "announce" => Fits(put[q].cmd))'
  BY <1>1, GrowingKeeps DEF OriginInv, Fits
<1>5. QED
  BY <1>1, <1>2, <1>3, <1>4 DEF OriginInv, getGlobalPolicy

LEMMA HeartbeatOrigins ==
  ASSUME OriginInv, TypeInv', NEW d \in Devices,
         \/ StartTick(d) \/ ReadGlobal(d) \/ ReadOverride(d) \/ FetchPending(d)
         \/ DropHeartbeat(d) \/ ReceivePolicy(d)
  PROVE  OriginInv'
<1> USE ConstantFacts
<1>1. /\ hb \in [Devices -> Heartbeats] /\ job \in [Devices -> Jobs]
      /\ pending \subseteq Commands /\ override[d] \in Docs \cup {None}
      /\ hb[d].at \in {"override", "commands", "reply"} => hb[d].policy \in Docs
  BY DEF OriginInv, TypeInv, TypeOK
<1>2. Origins(d) /\ getGlobalPolicy \in ever.global
  BY DEF OriginInv
<1>3. UNCHANGED <<global, override, put, ever>> /\ pending' \subseteq pending
  BY DEF server, StartTick, ReadGlobal, ReadOverride, FetchPending, DropHeartbeat,
         ReceivePolicy
<1>4. \A e \in Devices \ {d} : hb'[e] = hb[e] /\ job'[e] = job[e]
  BY <1>1 DEF StartTick, ReadGlobal, ReadOverride, FetchPending, DropHeartbeat,
              ReceivePolicy
<1>5. SUFFICES Origins(d)'
  BY <1>3, <1>4, DeviceOrigins DEF server
<1>6. CASE StartTick(d)
  BY <1>6, <1>1, <1>2, <1>3 DEF StartTick, Origins, Stored, Sent, Carried, Heartbeats
<1>7. CASE ReadGlobal(d)
  BY <1>7, <1>1, <1>2, <1>3 DEF ReadGlobal, Origins, Stored, Sent, Carried, Heartbeats
<1>8. CASE ReadOverride(d)
  <2> DEFINE g == hb[d].policy
             m == mergePolicy(g, override[d])
  <2>1. g \in Docs /\ g \in ever.global
    BY <1>8, <1>1, <1>2 DEF ReadOverride, Origins
  <2>2. IF override[d] = None THEN m = g ELSE IsOver(m, g, override[d])
    BY <1>1, <2>1, MergeIsOver DEF mergePolicy
  <2>3. Stored(d, m)
    BY <2>1, <2>2, <1>2 DEF Stored, Origins
  <2>4. hb'[d] = [hb[d] EXCEPT !.at = "commands", !.policy = m]
    BY <1>8, <1>1 DEF ReadOverride
  <2>5. hb'[d].at = "commands" /\ hb'[d].policy = m /\ hb'[d].payloads = hb[d].payloads
    BY <2>4, <1>1 DEF Heartbeats
  <2>6. job' = job
    BY <1>8 DEF ReadOverride
  <2> HIDE DEF m, g
  <2>7. QED
    BY <1>2, <1>3, <2>3, <2>5, <2>6 DEF Origins, Stored, Sent, Carried
<1>9. CASE FetchPending(d)
  <2> DEFINE got == {c.policy : c \in PendingFor(d)} \ {None}
  <2>1. got \subseteq Carried(d)
    BY DEF PendingFor, OriginInv, Fits
  <2>2. hb'[d] = [hb[d] EXCEPT !.at = "reply", !.payloads = got]
    BY <1>9, <1>1 DEF FetchPending
  <2> HIDE DEF got
  <2>3. hb'[d].at = "reply" /\ hb'[d].policy = hb[d].policy /\ hb'[d].payloads = got
    BY <2>2, <1>1 DEF Heartbeats
  <2>4. job' = job /\ hb[d].at = "commands"
    BY <1>9 DEF FetchPending
  <2>5. QED
    BY <1>2, <1>3, <2>1, <2>3, <2>4 DEF Origins, Stored, Sent, Carried
<1>10. CASE DropHeartbeat(d)
  <2>1. hb'[d] = NoRequest /\ job' = job
    BY <1>10, <1>1 DEF DropHeartbeat
  <2>2. QED
    BY <1>2, <1>3, <2>1 DEF NoRequest, Origins, Stored, Sent, Carried
<1>11. CASE ReceivePolicy(d)
  <2>1. hb'[d] = NoRequest /\ hb[d].at = "reply"
    BY <1>11, <1>1 DEF ReceivePolicy
  <2>2. \/ job'[d] = Idle
        \/ job'[d] = Apply(hb[d].policy, hb[d].payloads)
    BY <1>11, <1>1 DEF ReceivePolicy
  <2>3. /\ job'[d].doc \in {None, hb[d].policy}
        /\ job'[d].todo \subseteq hb[d].payloads
    BY <2>2 DEF Idle, Apply
  <2>4. QED
    BY <1>2, <1>3, <2>1, <2>3 DEF NoRequest, Origins, Stored, Sent, Carried
<1>12. QED
  BY <1>6, <1>7, <1>8, <1>9, <1>10, <1>11

\* What the agent of one device does leaves the server and the other devices
\* alone; the documents it applies are those it has.
LEMMA AgentFrame ==
  ASSUME TypeInv, NEW d \in Devices,
         \/ ApplyPart(d) \/ FinishTick(d) \/ Restart(d)
         \/ \E p \in job[d].todo : NextPayload(d, p)
         \/ WriteFails(d) \/ DownloadFails(d) \/ WaydroidFails(d) \/ Hangs(d)
  PROVE  /\ UNCHANGED server /\ pending' = pending
         /\ hb' = hb \/ hb' = [hb EXCEPT ![d] = NoRequest]
         /\ clean' \subseteq clean
         /\ \A e \in Devices \ {d} : job'[e] = job[e] /\ files'[e] = files[e]
         /\ \/ job'[d].doc = job[d].doc /\ job'[d].todo = job[d].todo
            \/ job'[d].doc \in job[d].todo /\ job'[d].todo \subseteq job[d].todo
            \/ job'[d] = Idle
<1>1. job \in [Devices -> Jobs] /\ files \in [Devices -> AllFiles]
  BY DEF TypeInv, TypeOK
<1>2. ASSUME NEW part, NEW x,
             \/ Goto(d, part) \/ Return(d)
             \/ job' = [job EXCEPT ![d].apps = x]
             \/ job' = [job EXCEPT ![d].at = part, ![d].apps = x]
      PROVE  /\ \A e \in Devices \ {d} : job'[e] = job[e]
             /\ job'[d].doc = job[d].doc /\ job'[d].todo = job[d].todo
  BY <1>1, <1>2 DEF Goto, Return, Jobs
<1>3. ASSUME NEW x,
             \/ UNCHANGED files
             \/ files' = [files EXCEPT ![d].chromium = x]
             \/ files' = [files EXCEPT ![d].wallpaper = x]
             \/ files' = [files EXCEPT ![d].shell = x]
             \/ files' = [files EXCEPT ![d].apps = x]
      PROVE  \A e \in Devices \ {d} : files'[e] = files[e]
  BY <1>1, <1>3
<1>4. CASE OpenChromium(d) \/ WriteChromium(d) \/ OpenWallpaper(d) \/ CopyWallpaper(d)
           \/ OpenShell(d) \/ WriteShell(d)
  <2>1. /\ \A e \in Devices \ {d} : job'[e] = job[e]
        /\ job'[d].doc = job[d].doc /\ job'[d].todo = job[d].todo
    BY <1>2, <1>4 DEF OpenChromium, WriteChromium, OpenWallpaper, CopyWallpaper,
                      OpenShell, WriteShell
  <2>2. \A e \in Devices \ {d} : files'[e] = files[e]
    BY <1>3, <1>4 DEF OpenChromium, WriteChromium, OpenWallpaper, CopyWallpaper,
                      OpenShell, WriteShell
  <2>3. Applying
    BY <1>4 DEF OpenChromium, WriteChromium, OpenWallpaper, CopyWallpaper,
                OpenShell, WriteShell
  <2>4. QED
    BY <2>1, <2>2, <2>3 DEF Applying
<1>5. CASE ListApps(d) \/ (\E q \in job[d].apps : InstallNext(d, q) \/ RemoveNext(d, q))
  BY <1>2, <1>3, <1>5 DEF InstallNext, ListApps, RemoveNext, Applying
<1>6. CASE WriteFails(d) \/ DownloadFails(d) \/ WaydroidFails(d) \/ Hangs(d)
  BY <1>2, <1>3, <1>6 DEF WriteFails, DownloadFails, WaydroidFails, Hangs, Failing, FaultOf
<1>7. CASE FinishTick(d) \/ Restart(d)
  BY <1>1, <1>7 DEF FinishTick, Restart, FaultOf
<1>8. CASE \E p \in job[d].todo : NextPayload(d, p)
  BY <1>1, <1>8 DEF NextPayload, Apply
<1>9. QED
  BY <1>4, <1>5, <1>6, <1>7, <1>8 DEF ApplyPart

LEMMA AgentOrigins ==
  ASSUME OriginInv, TypeInv', NEW d \in Devices,
         \/ ApplyPart(d) \/ FinishTick(d) \/ Restart(d)
         \/ \E p \in job[d].todo : NextPayload(d, p)
         \/ WriteFails(d) \/ DownloadFails(d) \/ WaydroidFails(d) \/ Hangs(d)
  PROVE  OriginInv'
<1>1. hb \in [Devices -> Heartbeats]
  BY DEF OriginInv, TypeInv, TypeOK
<1>2. /\ UNCHANGED server /\ pending' = pending
      /\ hb' = hb \/ hb' = [hb EXCEPT ![d] = NoRequest]
      /\ \A e \in Devices \ {d} : job'[e] = job[e]
      /\ \/ job'[d].doc = job[d].doc /\ job'[d].todo = job[d].todo
         \/ job'[d].doc \in job[d].todo /\ job'[d].todo \subseteq job[d].todo
         \/ job'[d] = Idle
  BY AgentFrame DEF OriginInv
<1>3. Origins(d)
  BY DEF OriginInv
<1>4. UNCHANGED <<override, ever>>
  BY <1>2 DEF server
<1>5. /\ \A e \in Devices \ {d} : hb'[e] = hb[e]
      /\ hb'[d] = hb[d] \/ hb'[d] = NoRequest
  BY <1>1, <1>2
<1>6. /\ hb'[d].at = "override" => hb'[d].policy \in ever.global
      /\ hb'[d].at \in {"commands", "reply"} => Stored(d, hb'[d].policy)
      /\ hb'[d].payloads \subseteq Carried(d)
  BY <1>3, <1>5 DEF Origins, NoRequest
<1>7. /\ job'[d].doc # None => Sent(d, job'[d].doc)
      /\ job'[d].todo \subseteq Carried(d)
  BY <1>2, <1>3 DEF Origins, Idle, Sent, Carried
<1>8. Origins(d)'
  BY <1>3, <1>4, <1>6, <1>7 DEF Origins, Stored, Sent, Carried
<1>9. QED
  BY <1>2, <1>5, <1>8, DeviceOrigins

LEMMA OriginInvariant == Spec => []OriginInv
<1>1. TypeInv' /\ OriginInv /\ [Next]_vars => OriginInv'
  <2> SUFFICES ASSUME TypeInv', OriginInv, [Next]_vars PROVE OriginInv'
    OBVIOUS
  <2>1. CASE UNCHANGED vars
    BY <2>1 DEF OriginInv, Origins, Fits, Stored, Sent, Carried, getGlobalPolicy, vars
  <2>2. CASE Next
    <3> USE ConstantFacts
    <3>1. ASSUME NEW p \in Puts,
                 \/ \E b \in Bodies : PutGlobal(p, b)
                 \/ \E d \in Devices, o \in Overrides \cup {None} : PutOverride(p, d, o)
                 \/ QueueApply(p) \/ ServerDies(p)
          PROVE  OriginInv'
      BY <3>1, PutOrigins
    <3>2. ASSUME NEW d \in SwitchedOn,
                 \/ StartTick(d) \/ ReadGlobal(d) \/ ReadOverride(d)
                 \/ FetchPending(d) \/ DropHeartbeat(d) \/ ReceivePolicy(d)
          PROVE  OriginInv'
      BY <3>2, HeartbeatOrigins
    <3>3. ASSUME NEW d \in SwitchedOn,
                 \/ ApplyPart(d) \/ FinishTick(d) \/ Restart(d)
                 \/ \E p \in job[d].todo : NextPayload(d, p)
                 \/ WriteFails(d) \/ DownloadFails(d) \/ WaydroidFails(d) \/ Hangs(d)
          PROVE  OriginInv'
      BY <3>3, AgentOrigins
    <3>4. QED
      BY <2>2, <3>1, <3>2, <3>3 DEF Next
  <2>3. QED
    BY <2>1, <2>2
<1>2. QED
  BY <1>1, OriginsInitially, TypeInvInvariant, PTL DEF Spec

\* A device only sees and applies policies that were stored for it, however
\* heartbeats and PUT requests overlap and whatever is lost.
THEOREM PoliciesAreStored == Spec => []AppliesWhatWasStored
<1>1. OriginInv => AppliesWhatWasStored
  BY DEF OriginInv, Origins, AppliesWhatWasStored
<1>2. QED
  BY <1>1, OriginInvariant, PTL
-----------------------------------------------------------------------------
\* As far as applyPolicy has come with document p, the machine has it.
Progress(d, p) ==
    /\ ~At(d, "hung")
    /\ job[d].at \notin {"chromium", "chromium open"} =>
          FileAgrees(d, "chromium", ChromiumOf(p))
    /\ job[d].at \notin {"chromium", "chromium open", "wallpaper", "wallpaper open"} =>
          FileAgrees(d, "wallpaper", WallpaperOf(p))
    /\ job[d].at \in {"install", "remove"} => files[d].shell = ShellOf(p)
    /\ At(d, "install") =>
          PackagesOf(p, "force_install") \subseteq files[d].apps \cup job[d].apps
    /\ At(d, "remove") =>
          /\ Allowed(p, PackagesOf(p, "force_install")) \subseteq files[d].apps
          /\ files[d].apps \subseteq Allowed(p, files[d].apps) \cup job[d].apps

\* A part of applyPolicy that only moves on, or that writes one file: what it
\* finds in order it leaves in order, and what it writes is as the document has
\* it.
LEMMA FilePartKeeps ==
  ASSUME TypeInv, NEW d \in Devices, NEW p \in Docs, job[d].doc = p,
         \/ OpenChromium(d) \/ WriteChromium(d) \/ OpenWallpaper(d) \/ CopyWallpaper(d)
         \/ OpenShell(d) \/ WriteShell(d)
  PROVE  /\ HasApplied(d, p) => HasApplied(d, p)'
         /\ Progress(d, p) => Progress(d, p)'
<1>1. job \in [Devices -> Jobs] /\ files \in [Devices -> AllFiles]
  BY DEF TypeInv, TypeOK
<1>2. ASSUME NEW part, Goto(d, part) PROVE job'[d].at = part /\ job'[d].apps = job[d].apps
  BY <1>1, <1>2 DEF Goto, Jobs
<1>3. CASE OpenChromium(d)
  <2>1. /\ job[d].at = "chromium"
        /\ files'[d].wallpaper = files[d].wallpaper /\ files'[d].shell = files[d].shell
        /\ files'[d].apps = files[d].apps
        /\ \/ /\ ChromiumOf(p) = None /\ job'[d].at = "wallpaper"
              /\ files'[d].chromium = files[d].chromium
           \/ job'[d].at = "chromium open"
    BY <1>1, <1>2, <1>3 DEF OpenChromium, At, DocOf, AllFiles
  <2>2. QED
    BY <2>1 DEF HasApplied, Progress, At, FileAgrees, Passing
<1>4. CASE WriteChromium(d)
  <2>1. /\ job[d].at = "chromium open" /\ job'[d].at = "wallpaper"
        /\ files'[d].wallpaper = files[d].wallpaper /\ files'[d].shell = files[d].shell
        /\ files'[d].apps = files[d].apps /\ files'[d].chromium = ChromiumOf(p)
    BY <1>1, <1>2, <1>4 DEF WriteChromium, At, DocOf, AllFiles
  <2>2. QED
    BY <2>1 DEF HasApplied, Progress, At, FileAgrees, Passing
<1>5. CASE OpenWallpaper(d)
  <2>1. /\ job[d].at = "wallpaper"
        /\ files'[d].chromium = files[d].chromium /\ files'[d].shell = files[d].shell
        /\ files'[d].apps = files[d].apps
        /\ \/ /\ WallpaperOf(p) = None /\ job'[d].at = "shell"
              /\ files'[d].wallpaper = files[d].wallpaper
           \/ job'[d].at = "wallpaper open"
    BY <1>1, <1>2, <1>5 DEF OpenWallpaper, At, DocOf, AllFiles
  <2>2. QED
    BY <2>1 DEF HasApplied, Progress, At, FileAgrees, Passing
<1>6. CASE CopyWallpaper(d)
  <2>1. /\ job[d].at = "wallpaper open" /\ job'[d].at = "shell"
        /\ files'[d].chromium = files[d].chromium /\ files'[d].shell = files[d].shell
        /\ files'[d].apps = files[d].apps /\ files'[d].wallpaper = WallpaperOf(p)
    BY <1>1, <1>2, <1>6 DEF CopyWallpaper, At, DocOf, AllFiles
  <2>2. QED
    BY <2>1 DEF HasApplied, Progress, At, FileAgrees, Passing
<1>7. CASE OpenShell(d)
  <2>1. /\ job[d].at = "shell" /\ job'[d].at = "shell open"
        /\ files'[d].chromium = files[d].chromium
        /\ files'[d].wallpaper = files[d].wallpaper /\ files'[d].apps = files[d].apps
    BY <1>1, <1>2, <1>7 DEF OpenShell, At, AllFiles
  <2>2. QED
    BY <2>1 DEF HasApplied, Progress, At, FileAgrees, Passing
<1>8. CASE WriteShell(d)
  <2>1. /\ job[d].at = "shell open" /\ job'[d].at = "install"
        /\ job'[d].apps = PackagesOf(p, "force_install")
        /\ files'[d].chromium = files[d].chromium
        /\ files'[d].wallpaper = files[d].wallpaper /\ files'[d].apps = files[d].apps
        /\ files'[d].shell = ShellOf(p)
    BY <1>1, <1>8 DEF WriteShell, At, DocOf, AllFiles, Jobs
  <2>2. QED
    BY <2>1 DEF HasApplied, Progress, At, FileAgrees, Passing
<1>9. QED
  BY <1>3, <1>4, <1>5, <1>6, <1>7, <1>8

\* reconcileAndroidApps only installs what is forced and only removes what is
\* not allowed.
LEMMA AppsPartKeeps ==
  ASSUME TypeInv, NEW d \in Devices, NEW p \in Docs, job[d].doc = p,
         \/ ListApps(d)
         \/ \E q \in job[d].apps : InstallNext(d, q) \/ RemoveNext(d, q)
  PROVE  /\ HasApplied(d, p) => HasApplied(d, p)'
         /\ Progress(d, p) => Progress(d, p)'
<1> DEFINE forced == PackagesOf(p, "force_install")
<1>1. job \in [Devices -> Jobs] /\ files \in [Devices -> AllFiles] /\ JobOk(job[d])
  BY DEF TypeInv, TypeOK
<1>2. files[d].apps \subseteq Packages /\ forced \subseteq Packages
  BY <1>1, ListTypes DEF AllFiles
<1>3. /\ files'[d].chromium = files[d].chromium /\ files'[d].shell = files[d].shell
      /\ files'[d].wallpaper = files[d].wallpaper
  BY <1>1 DEF ListApps, InstallNext, RemoveNext, AllFiles
<1>4. ASSUME NEW q \in job[d].apps, InstallNext(d, q)
      PROVE  /\ HasApplied(d, p) => HasApplied(d, p)'
             /\ Progress(d, p) => Progress(d, p)'
  <2>1. /\ job[d].at = "install" /\ job'[d].at = "install"
        /\ files'[d].apps = files[d].apps \cup {q} /\ job'[d].apps = job[d].apps \ {q}
        /\ q \in forced
    BY <1>1, <1>4 DEF InstallNext, At, AllFiles, Jobs, JobOk
  <2> HIDE DEF forced
  <2>2. /\ forced \subseteq files[d].apps \cup job[d].apps
              => forced \subseteq files'[d].apps \cup job'[d].apps
        /\ Allowed(p, forced) \subseteq files[d].apps
              => Allowed(p, forced) \subseteq files'[d].apps
        /\ files[d].apps \subseteq Allowed(p, files[d].apps) \cup forced
              => files'[d].apps \subseteq Allowed(p, files'[d].apps) \cup forced
    BY <2>1 DEF Allowed
  <2>3. QED
    BY <1>3, <2>1, <2>2 DEF HasApplied, Progress, At, FileAgrees, Passing, forced
<1>5. CASE ListApps(d)
  <2>1. /\ job[d].at = "install" /\ job'[d].at = "remove" /\ job[d].apps = {}
        /\ files'[d].apps = files[d].apps
        /\ job'[d].apps = files[d].apps \ Allowed(p, files[d].apps)
    BY <1>1, <1>5 DEF ListApps, At, DocOf, Jobs
  <2> HIDE DEF forced
  <2>2. /\ forced \subseteq files[d].apps => Allowed(p, forced) \subseteq files[d].apps
        /\ files[d].apps \subseteq Allowed(p, files[d].apps) \cup job'[d].apps
        /\ files[d].apps \subseteq Allowed(p, files[d].apps) \cup forced
              => files[d].apps \subseteq Allowed(p, files[d].apps)
                                           \cup {q \in forced : q \in job'[d].apps}
    BY <2>1 DEF Allowed
  <2>3. QED
    BY <1>3, <2>1, <2>2 DEF HasApplied, Progress, At, FileAgrees, Passing, forced
<1>6. ASSUME NEW q \in job[d].apps, RemoveNext(d, q)
      PROVE  /\ HasApplied(d, p) => HasApplied(d, p)'
             /\ Progress(d, p) => Progress(d, p)'
  <2>1. /\ job[d].at = "remove" /\ job'[d].at = "remove"
        /\ files'[d].apps = files[d].apps \ {q} /\ job'[d].apps = job[d].apps \ {q}
        /\ q \notin Allowed(p, Packages)
    <3>1. job[d].at = "remove" /\ job[d].doc = p
      BY <1>6 DEF RemoveNext, At
    <3>2. q \notin Allowed(p, Packages)
      BY <1>1, <3>1 DEF JobOk
    <3>3. files'[d].apps = files[d].apps \ {q}
      BY <1>1, <1>6 DEF RemoveNext, AllFiles
    <3>4. job'[d].at = "remove" /\ job'[d].apps = job[d].apps \ {q}
      BY <1>1, <1>6, <3>1 DEF RemoveNext, Jobs
    <3>5. QED
      BY <3>1, <3>2, <3>3, <3>4
  <2> HIDE DEF forced
  <2>2. /\ q \notin Allowed(p, forced)
        /\ \A x \in files[d].apps : x \in Allowed(p, files[d].apps) /\ x # q
                                       => x \in Allowed(p, files'[d].apps)
    BY <1>2, <2>1 DEF Allowed
  <2>3. Allowed(p, forced) \subseteq files[d].apps => Allowed(p, forced) \subseteq files'[d].apps
    BY <2>1, <2>2
  <2>4. ASSUME NEW S, files[d].apps \subseteq Allowed(p, files[d].apps) \cup S
        PROVE  files'[d].apps \subseteq Allowed(p, files'[d].apps) \cup (S \ {q})
    BY <2>1, <2>2, <2>4
  <2>5. Passing(d, p)' = Passing(d, p) \ {q}
    BY <2>1 DEF Passing, At
  <2>6. HasApplied(d, p) => HasApplied(d, p)'
    BY <1>3, <2>1, <2>3, <2>4, <2>5 DEF HasApplied, At, FileAgrees, forced
  <2>7. Progress(d, p) => Progress(d, p)'
    BY <1>3, <2>1, <2>3, <2>4 DEF Progress, At, FileAgrees, forced
  <2>8. QED
    BY <2>6, <2>7
<1>7. QED
  BY <1>4, <1>5, <1>6

\* To apply a document that the machine has changes nothing but what is just
\* being written and what is passing; and every part adds to the progress.
LEMMA ApplyKeeps ==
  ASSUME TypeInv, NEW d \in Devices, NEW p \in Docs, job[d].doc = p, ApplyPart(d)
  PROVE  /\ HasApplied(d, p) => HasApplied(d, p)'
         /\ Progress(d, p) => Progress(d, p)'
BY FilePartKeeps, AppsPartKeeps DEF ApplyPart

\* The policy of a device is a document.
LEMMA EffectiveType ==
  ASSUME TypeOK, NEW d \in Devices
  PROVE  Effective(d) \in Docs
BY GlobalType, PolicyType DEF Effective, TypeOK

\* A part of applyPolicy is about the document that the agent has and goes on
\* having.
LEMMA ApplyPartFrame ==
  ASSUME TypeInv, NEW d \in Devices, ApplyPart(d)
  PROVE  /\ job[d].at # "idle" /\ job'[d].at # "idle"
         /\ job'[d].doc = job[d].doc /\ job'[d].todo = job[d].todo
<1>1. job \in [Devices -> Jobs]
  BY DEF TypeInv, TypeOK
<1>2. CASE OpenChromium(d) \/ WriteChromium(d) \/ OpenWallpaper(d) \/ CopyWallpaper(d)
           \/ OpenShell(d)
  BY <1>1, <1>2 DEF OpenChromium, WriteChromium, OpenWallpaper, CopyWallpaper, OpenShell,
                    At, Goto, Jobs
<1>3. CASE WriteShell(d) \/ ListApps(d)
           \/ (\E q \in job[d].apps : InstallNext(d, q) \/ RemoveNext(d, q))
  BY <1>1, <1>3 DEF WriteShell, ListApps, InstallNext, RemoveNext, At, Jobs
<1>4. QED
  BY <1>2, <1>3 DEF ApplyPart

-----------------------------------------------------------------------------
\* What makes a step keep device d settled: the tables stay, nothing new is
\* announced, and what the machine has and still will apply is its policy.
LEMMA SettledAfter ==
  ASSUME NEW d \in Devices, Settled(d), UNCHANGED <<global, override>>,
         Announced(d)' \subseteq Announced(d), Agrees(d)',
         hb'[d].payloads \subseteq {Effective(d)},
         hb'[d].at \in {"commands", "reply"} => hb'[d].policy = Effective(d),
         hb'[d].at = "override" => hb'[d].policy = getGlobalPolicy,
         job'[d].at # "idle" =>
            job'[d].doc = Effective(d) /\ job'[d].todo \subseteq {Effective(d)}
  PROVE  Settled(d)'
<1>1. getGlobalPolicy' = getGlobalPolicy
  BY DEF getGlobalPolicy
<1>2. Effective(d)' = Effective(d)
  BY <1>1 DEF Effective
<1>3. {c.policy : c \in Announced(d)'} \ {None} \subseteq {Effective(d)}
  BY DEF Settled, OnTheWay
<1>4. OnTheWay(d)' \subseteq {Effective(d)}
  BY <1>3 DEF OnTheWay
<1>5. Decodable(Effective(d)')
  BY <1>2 DEF Settled
<1>6. QED
  BY <1>1, <1>2, <1>4, <1>5 DEF Settled

\* The parts of what a settled device has on its way.
LEMMA SettledNow ==
  ASSUME NEW d \in Devices, Settled(d)
  PROVE  /\ hb[d].payloads \subseteq {Effective(d)}
         /\ hb[d].at \in {"commands", "reply"} => hb[d].policy = Effective(d)
         /\ hb[d].at = "override" => hb[d].policy = getGlobalPolicy
         /\ job[d].at # "idle" =>
               job[d].doc = Effective(d) /\ job[d].todo \subseteq {Effective(d)}
BY DEF Settled, OnTheWay

\* A machine whose files stay agrees with its policy as before, unless it is in
\* the middle of applying one.
LEMMA AgreesStill ==
  ASSUME NEW d \in Devices, Agrees(d), UNCHANGED <<global, override>>,
         files'[d] = files[d],
         job'[d] = job[d] \/ At(d, "idle") \/ Returned(d)
  PROVE  Agrees(d)'
<1>1. Effective(d)' = Effective(d)
  BY DEF Effective, getGlobalPolicy
<1> DEFINE p == Effective(d)
<1>2. HasApplied(d, p)
  BY DEF Agrees
<1> HIDE DEF p
<1>3. CASE job'[d] = job[d]
  BY <1>1, <1>2, <1>3 DEF Agrees, HasApplied, FileAgrees, At, Passing, p
<1>4. CASE At(d, "idle") \/ Returned(d)
  <2>1. Passing(d, p) = {}
    BY <1>4 DEF Passing, At, Returned
  <2>2. /\ FileAgrees(d, "chromium", ChromiumOf(p))
        /\ FileAgrees(d, "wallpaper", WallpaperOf(p))
        /\ files[d].shell = ShellOf(p)
        /\ Allowed(p, PackagesOf(p, "force_install")) \subseteq files[d].apps
        /\ files[d].apps \subseteq Allowed(p, files[d].apps)
    BY <1>2, <1>4, <2>1 DEF HasApplied, At, Returned
  <2>3. QED
    BY <1>1, <2>2 DEF Agrees, HasApplied, FileAgrees, p
<1>5. QED
  BY <1>3, <1>4

\* Nothing is announced to a device by a step that leaves the PUTs alone and
\* only takes commands away.
LEMMA NothingAnnounced ==
  ASSUME NEW d \in Devices, put' = put, pending' \subseteq pending
  PROVE  Announced(d)' \subseteq Announced(d)
BY DEF Announced

\* A step that does not concern the heartbeat, the agent and the files of d.
LEMMA SettledElsewhere ==
  ASSUME NEW d \in Devices, Settled(d), UNCHANGED <<global, override>>,
         Announced(d)' \subseteq Announced(d),
         hb'[d] = hb[d], job'[d] = job[d], files'[d] = files[d]
  PROVE  Settled(d)'
<1>1. Agrees(d)'
  BY AgreesStill DEF Settled
<1>2. QED
  BY <1>1, SettledNow, SettledAfter

\* The heartbeat of a settled device brings its policy again.
LEMMA HeartbeatSettles ==
  ASSUME TypeInv, NEW d \in Devices, Settled(d),
         \/ StartTick(d) \/ ReadGlobal(d) \/ ReadOverride(d) \/ FetchPending(d)
         \/ ReceivePolicy(d)
  PROVE  Settled(d)'
<1> DEFINE e == Effective(d)
<1>1. hb \in [Devices -> Heartbeats] /\ job \in [Devices -> Jobs]
  BY DEF TypeInv, TypeOK
<1>2. /\ UNCHANGED <<global, override>> /\ files' = files
      /\ put' = put /\ pending' \subseteq pending
  BY DEF StartTick, ReadGlobal, ReadOverride, FetchPending, ReceivePolicy, server
<1>3. Announced(d)' \subseteq Announced(d) /\ Agrees(d)'
  <2>1. job' = job \/ At(d, "idle")
    BY DEF StartTick, ReadGlobal, ReadOverride, FetchPending, ReceivePolicy, At, TypeInv
  <2>2. QED
    BY <1>2, <2>1, NothingAnnounced, AgreesStill DEF Settled
<1>4. /\ hb[d].payloads \subseteq {e}
      /\ hb[d].at \in {"commands", "reply"} => hb[d].policy = e
      /\ hb[d].at = "override" => hb[d].policy = getGlobalPolicy
      /\ job[d].at # "idle" => job[d].doc = e /\ job[d].todo \subseteq {e}
  BY SettledNow
<1>5. e = mergePolicy(getGlobalPolicy, override[d])
  BY DEF Effective
<1>6. {c.policy : c \in PendingFor(d)} \ {None} \subseteq {e}
  BY DEF Settled, OnTheWay, Announced, PendingFor
<1>7. Decodable(e)
  BY DEF Settled
<1> HIDE DEF e
<1>8. CASE StartTick(d)
  <2>1. /\ hb'[d].at = "global" /\ hb'[d].payloads = hb[d].payloads /\ job' = job
    BY <1>1, <1>8 DEF StartTick, Heartbeats
  <2>2. QED
    BY <1>2, <1>3, <1>4, <2>1, SettledAfter DEF e
<1>9. CASE ReadGlobal(d)
  <2>1. /\ hb'[d].at = "override" /\ hb'[d].policy = getGlobalPolicy
        /\ hb'[d].payloads = hb[d].payloads /\ job' = job
    BY <1>1, <1>9 DEF ReadGlobal, Heartbeats
  <2>2. QED
    BY <1>2, <1>3, <1>4, <2>1, SettledAfter DEF e
<1>10. CASE ReadOverride(d)
  <2>1. /\ hb'[d].at = "commands" /\ hb'[d].policy = mergePolicy(hb[d].policy, override[d])
        /\ hb'[d].payloads = hb[d].payloads /\ job' = job /\ hb[d].at = "override"
    BY <1>1, <1>10 DEF ReadOverride, Heartbeats
  <2>2. hb'[d].policy = e
    BY <1>4, <1>5, <2>1
  <2>3. QED
    BY <1>2, <1>3, <1>4, <2>1, <2>2, SettledAfter DEF e
<1>11. CASE FetchPending(d)
  <2>1. /\ hb'[d].at = "reply" /\ hb'[d].policy = hb[d].policy
        /\ hb'[d].payloads = {c.policy : c \in PendingFor(d)} \ {None}
        /\ job' = job /\ hb[d].at = "commands"
    BY <1>1, <1>11 DEF FetchPending, Heartbeats
  <2>2. QED
    BY <1>2, <1>3, <1>4, <1>6, <2>1, SettledAfter DEF e
<1>12. CASE ReceivePolicy(d)
  <2>1. hb[d].policy = e
    BY <1>4, <1>12 DEF ReceivePolicy
  <2>2. /\ hb'[d] = NoRequest
        /\ job'[d] = Apply(e, hb[d].payloads)
    BY <1>1, <1>7, <1>12, <2>1 DEF ReceivePolicy
  <2>3. QED
    BY <1>2, <1>3, <1>4, <2>2, SettledAfter DEF e, NoRequest, Apply
<1>13. QED
  BY <1>8, <1>9, <1>10, <1>11, <1>12

\* The agent of a settled device applies the policy that it has.
LEMMA AgentSettles ==
  ASSUME TypeInv, NEW d \in Devices, Settled(d),
         \/ ApplyPart(d) \/ FinishTick(d)
         \/ \E p \in job[d].todo : NextPayload(d, p)
  PROVE  Settled(d)'
<1> DEFINE e == Effective(d)
<1>1. hb \in [Devices -> Heartbeats] /\ job \in [Devices -> Jobs]
  BY DEF TypeInv, TypeOK
<1>2. /\ UNCHANGED <<global, override>> /\ hb' = hb
      /\ put' = put /\ pending' \subseteq pending
  <2>1. UNCHANGED server /\ pending' = pending
    BY AgentFrame
  <2>2. hb' = hb
    BY DEF ApplyPart, OpenChromium, WriteChromium, OpenWallpaper, CopyWallpaper, OpenShell,
           WriteShell, InstallNext, ListApps, RemoveNext, FinishTick, NextPayload, Applying
  <2>3. QED
    BY <2>1, <2>2 DEF server
<1>3. Announced(d)' \subseteq Announced(d)
  BY <1>2, NothingAnnounced
<1>4. /\ hb[d].payloads \subseteq {e}
      /\ hb[d].at \in {"commands", "reply"} => hb[d].policy = e
      /\ hb[d].at = "override" => hb[d].policy = getGlobalPolicy
      /\ job[d].at # "idle" => job[d].doc = e /\ job[d].todo \subseteq {e}
  BY SettledNow
<1>5. Agrees(d)
  BY DEF Settled
<1>6. CASE ApplyPart(d)
  <2>1. job[d].at # "idle" /\ job'[d].doc = job[d].doc /\ job'[d].todo = job[d].todo
    BY <1>6, ApplyPartFrame
  <2>2. Agrees(d)'
    <3>1. PICK p \in Docs : p = Effective(d)
      BY EffectiveType DEF TypeInv
    <3>2. Effective(d)' = p
      BY <1>2, <3>1 DEF Effective, getGlobalPolicy
    <3>3. HasApplied(d, p) /\ job[d].doc = p
      BY <1>4, <1>5, <2>1, <3>1 DEF Agrees
    <3>4. HasApplied(d, p)'
      BY <1>6, <3>3, ApplyKeeps
    <3>5. QED
      BY <3>2, <3>4 DEF Agrees
  <2>3. QED
    BY <1>2, <1>3, <1>4, <2>1, <2>2, SettledAfter
<1>7. CASE FinishTick(d)
  <2>1. job'[d] = Idle /\ files' = files /\ Returned(d)
    BY <1>1, <1>7 DEF FinishTick
  <2>2. Agrees(d)'
    BY <1>2, <1>5, <2>1, AgreesStill
  <2>3. QED
    BY <1>2, <1>3, <1>4, <2>1, <2>2, SettledAfter DEF Idle
<1>8. CASE \E p \in job[d].todo : NextPayload(d, p)
  <2>1. PICK p \in job[d].todo : NextPayload(d, p)
    BY <1>8
  <2>2. /\ files' = files /\ job[d].at # "idle" /\ Returned(d)
        /\ job'[d].doc = p /\ job'[d].todo \subseteq job[d].todo
    BY <1>1, <2>1 DEF NextPayload, Returned, At, Apply
  <2>3. Agrees(d)'
    BY <1>2, <1>5, <2>2, AgreesStill
  <2>4. QED
    BY <1>2, <1>3, <1>4, <2>2, <2>3, SettledAfter
<1>9. QED
  BY <1>6, <1>7, <1>8

\* What a step of device e leaves alone of another one.
LEMMA OtherDevices ==
  ASSUME TypeInv, NEW e \in Devices, NEW d \in Devices, d # e,
         \/ StartTick(e) \/ ReadGlobal(e) \/ ReadOverride(e) \/ FetchPending(e)
         \/ ReceivePolicy(e) \/ ApplyPart(e) \/ FinishTick(e)
         \/ \E p \in job[e].todo : NextPayload(e, p)
  PROVE  /\ hb'[d] = hb[d] /\ job'[d] = job[d] /\ files'[d] = files[d]
         /\ UNCHANGED <<global, override, put>> /\ pending' \subseteq pending
<1>1. /\ hb \in [Devices -> Heartbeats] /\ job \in [Devices -> Jobs]
      /\ files \in [Devices -> AllFiles]
  BY DEF TypeInv, TypeOK
<1>2. CASE StartTick(e) \/ ReadGlobal(e) \/ ReadOverride(e) \/ FetchPending(e)
           \/ ReceivePolicy(e)
  BY <1>1, <1>2 DEF StartTick, ReadGlobal, ReadOverride, FetchPending, ReceivePolicy, server
<1>3. CASE ApplyPart(e) \/ FinishTick(e) \/ \E p \in job[e].todo : NextPayload(e, p)
  <2>1. /\ UNCHANGED server /\ pending' = pending
        /\ hb' = hb \/ hb' = [hb EXCEPT ![e] = NoRequest]
        /\ job'[d] = job[d] /\ files'[d] = files[d]
    BY <1>3, AgentFrame
  <2>2. hb'[d] = hb[d]
    BY <1>1, <2>1
  <2>3. QED
    BY <2>1, <2>2 DEF server
<1>4. QED
  BY <1>2, <1>3

\* Every step that is neither a PUT nor a failure leaves a device settled.
LEMMA SettledStep ==
  ASSUME TypeInv, [Next]_vars, NEW d \in Devices, Settled(d), faults' = faults,
         \A p \in Puts : put[p].at = "new" => put'[p].at = "new"
  PROVE  Settled(d)'
<1> USE ConstantFacts
<1>1. faults \in Nat /\ put \in [Puts -> AllPuts]
  BY DEF TypeInv, TypeOK
<1>2. ASSUME NEW p \in Puts,
             \/ \E b \in Bodies : PutGlobal(p, b)
             \/ \E e \in Devices, o \in Overrides \cup {None} : PutOverride(p, e, o)
      PROVE  FALSE
  BY <1>1, <1>2 DEF PutGlobal, PutOverride
<1>3. ASSUME NEW p \in Puts, QueueApply(p) PROVE Settled(d)'
  <2>1. /\ UNCHANGED <<global, override>>
        /\ hb'[d] = hb[d] /\ job'[d] = job[d] /\ files'[d] = files[d]
    BY <1>3 DEF QueueApply
  <2>2. /\ put[p].at = "announce" /\ pending' = pending \cup {put[p].cmd}
        /\ put'[p].at = "done" /\ \A q \in Puts \ {p} : put'[q] = put[q]
    BY <1>1, <1>3 DEF QueueApply
  <2>3. Announced(d)' \subseteq Announced(d)
    BY <2>2 DEF Announced
  <2>4. QED
    BY <2>1, <2>3, SettledElsewhere
<1>4. ASSUME NEW f, Fault(f) PROVE FALSE
  BY <1>1, <1>4 DEF Fault
<1>5. ASSUME NEW e \in SwitchedOn,
             \/ StartTick(e) \/ ReadGlobal(e) \/ ReadOverride(e) \/ FetchPending(e)
             \/ ReceivePolicy(e) \/ ApplyPart(e) \/ FinishTick(e)
             \/ \E p \in job[e].todo : NextPayload(e, p)
      PROVE  Settled(d)'
  <2>1. CASE e = d
    BY <1>5, <2>1, HeartbeatSettles, AgentSettles
  <2>2. CASE e # d
    <3>1. /\ hb'[d] = hb[d] /\ job'[d] = job[d] /\ files'[d] = files[d]
          /\ UNCHANGED <<global, override, put>> /\ pending' \subseteq pending
      BY <1>5, <2>2, OtherDevices
    <3>2. QED
      BY <3>1, NothingAnnounced, SettledElsewhere
  <2>3. QED
    BY <2>1, <2>2
<1>6. CASE UNCHANGED vars
  BY <1>6, NothingAnnounced, SettledElsewhere DEF vars
<1>7. ASSUME NEW e \in SwitchedOn,
             \/ DropHeartbeat(e) \/ WriteFails(e) \/ DownloadFails(e)
             \/ WaydroidFails(e) \/ Hangs(e) \/ Restart(e)
      PROVE  FALSE
  BY <1>4, <1>7 DEF DropHeartbeat, WriteFails, DownloadFails, WaydroidFails, Hangs, Restart,
                    FaultOf
<1>8. ASSUME NEW p \in Puts, ServerDies(p) PROVE FALSE
  BY <1>4, <1>8 DEF ServerDies
<1>9. QED
  BY <1>2, <1>3, <1>5, <1>6, <1>7, <1>8 DEF Next

\* A device that has its policy keeps it while nothing is put and nothing fails:
\* its ticks touch nothing but the file they are just writing and the packages
\* that are forced and not allowed.
THEOREM PoliciesStay == Spec => StaysSettled
<1>1. TypeInv /\ [Next]_vars
      => [\A d \in Devices :
             Settled(d) => \/ Settled(d)'
                           \/ faults' # faults
                           \/ \E p \in Puts : put[p].at = "new" /\ put'[p].at # "new"]_vars
  BY SettledStep
<1>2. QED
  BY <1>1, TypeInvInvariant, PTL DEF Spec, StaysSettled

-----------------------------------------------------------------------------
\* In a tick that nothing has disturbed so far, what the heartbeat has is the
\* policy of the device, the agent applies it, and has applied it when it is
\* done.
Undisturbed(d) ==
    /\ hb[d].at = "override" => hb[d].policy = getGlobalPolicy
    /\ hb[d].at \in {"commands", "reply"} => hb[d].policy = Effective(d)
    /\ ~At(d, "idle") => job[d].doc = Effective(d) /\ Progress(d, Effective(d))
    /\ hb[d].at = "none" /\ At(d, "idle") /\ Decodable(Effective(d)) => Agrees(d)

CleanInv == \A d \in clean : Undisturbed(d)

\* A step that does not concern the policy, the heartbeat, the agent and the
\* files of d.
LEMMA UndisturbedElsewhere ==
  ASSUME NEW d \in Devices, Undisturbed(d), global' = global, override'[d] = override[d],
         hb'[d] = hb[d], job'[d] = job[d], files'[d] = files[d]
  PROVE  Undisturbed(d)'
<1>1. getGlobalPolicy' = getGlobalPolicy /\ Effective(d)' = Effective(d)
  BY DEF getGlobalPolicy, Effective
<1>2. \A p : Progress(d, p)' <=> Progress(d, p)
  BY DEF Progress, At, FileAgrees
<1>3. \A p : HasApplied(d, p)' <=> HasApplied(d, p)
  BY DEF HasApplied, At, FileAgrees, Passing
<1>4. Agrees(d)' <=> Agrees(d)
  BY <1>1, <1>3 DEF Agrees
<1>5. QED
  BY <1>1, <1>2, <1>4 DEF Undisturbed, At

\* The heartbeat brings the policy of the device.
LEMMA HeartbeatUndisturbed ==
  ASSUME TypeInv, NEW d \in Devices, d \in clean => Undisturbed(d),
         \/ StartTick(d)
         \/ d \in clean /\ (\/ ReadGlobal(d) \/ ReadOverride(d) \/ FetchPending(d)
                            \/ ReceivePolicy(d))
  PROVE  Undisturbed(d)'
<1>1. hb \in [Devices -> Heartbeats] /\ job \in [Devices -> Jobs]
  BY DEF TypeInv, TypeOK
<1>2. /\ UNCHANGED <<global, override>>
      /\ getGlobalPolicy' = getGlobalPolicy /\ Effective(d)' = Effective(d)
  BY DEF StartTick, ReadGlobal, ReadOverride, FetchPending, ReceivePolicy, server,
         Effective, getGlobalPolicy
<1>3. CASE ReceivePolicy(d) /\ d \in clean
  <2>1. hb[d].policy = Effective(d) /\ hb'[d] = NoRequest
    BY <1>1, <1>3 DEF ReceivePolicy, Undisturbed
  <2>2. job'[d] = IF Decodable(Effective(d)) THEN Apply(Effective(d), hb[d].payloads)
                                             ELSE Idle
    BY <1>1, <1>3, <2>1 DEF ReceivePolicy
  <2>3. CASE Decodable(Effective(d))
    <3>1. job'[d].at = "chromium" /\ job'[d].doc = Effective(d)
      BY <2>2, <2>3 DEF Apply
    <3>2. \A p : Progress(d, p)'
      BY <3>1 DEF Progress, At
    <3>3. QED
      BY <1>2, <2>1, <3>1, <3>2 DEF Undisturbed, At, NoRequest
  <2>4. CASE ~Decodable(Effective(d))
    BY <1>2, <2>1, <2>2, <2>4 DEF Undisturbed, At, NoRequest, Idle
  <2>5. QED
    BY <2>3, <2>4
<1>4. CASE ~ReceivePolicy(d)
  <2>1. job'[d].at = "idle" /\ hb'[d].at # "none"
    BY <1>1, <1>4 DEF StartTick, ReadGlobal, ReadOverride, FetchPending, Heartbeats, TypeInv
  <2>2. /\ hb'[d].at = "override" => hb'[d].policy = getGlobalPolicy
        /\ hb'[d].at \in {"commands", "reply"} => hb'[d].policy = Effective(d)
    BY <1>1, <1>4 DEF StartTick, ReadGlobal, ReadOverride, FetchPending, Heartbeats,
                      Undisturbed, Effective
  <2>3. QED
    BY <1>2, <2>1, <2>2 DEF Undisturbed, At
<1>5. QED
  BY <1>3, <1>4 DEF StartTick, ReadGlobal, ReadOverride, FetchPending, ReceivePolicy

\* The agent applies it, part by part, and has applied it at the end.
LEMMA AgentUndisturbed ==
  ASSUME TypeInv, NEW d \in Devices, Undisturbed(d), d \in clean',
         \/ ApplyPart(d) \/ FinishTick(d)
         \/ \E p \in job[d].todo : NextPayload(d, p)
  PROVE  Undisturbed(d)'
<1>1. hb \in [Devices -> Heartbeats] /\ job \in [Devices -> Jobs] /\ d \in Devices
  BY DEF TypeInv, TypeOK
<1>2. /\ UNCHANGED <<global, override>> /\ hb' = hb
      /\ getGlobalPolicy' = getGlobalPolicy /\ Effective(d)' = Effective(d)
  <2>1. UNCHANGED server
    BY AgentFrame
  <2>2. hb' = hb
    BY DEF ApplyPart, OpenChromium, WriteChromium, OpenWallpaper, CopyWallpaper, OpenShell,
           WriteShell, InstallNext, ListApps, RemoveNext, FinishTick, NextPayload, Applying
  <2>3. QED
    BY <2>1, <2>2 DEF server, Effective, getGlobalPolicy
<1>3. PICK p \in Docs : p = Effective(d)
  BY EffectiveType DEF TypeInv
<1>4. CASE ApplyPart(d)
  <2>1. /\ job[d].at # "idle" /\ job'[d].at # "idle"
        /\ job'[d].doc = job[d].doc
    BY <1>4, ApplyPartFrame
  <2>2. job[d].doc = p /\ Progress(d, p)
    BY <1>3, <2>1 DEF Undisturbed, At
  <2>3. Progress(d, p)'
    BY <1>4, <2>2, ApplyKeeps
  <2>4. QED
    BY <1>2, <1>3, <2>1, <2>2, <2>3 DEF Undisturbed, At
<1>5. CASE FinishTick(d)
  <2>1. job'[d] = Idle /\ files' = files /\ job[d].at = "remove" /\ job[d].apps = {}
    BY <1>1, <1>5 DEF FinishTick, Returned, At
  <2>2. Progress(d, p)
    BY <1>3, <2>1 DEF Undisturbed, At
  <2>3. HasApplied(d, p)'
    BY <2>1, <2>2 DEF Progress, HasApplied, FileAgrees, At, Idle
  <2>4. QED
    BY <1>2, <1>3, <2>1, <2>3 DEF Undisturbed, Agrees, At, Idle
<1>6. CASE \E x \in job[d].todo : NextPayload(d, x)
  <2>1. PICK x \in job[d].todo : NextPayload(d, x)
    BY <1>6
  <2>2. x = p /\ job'[d] = Apply(x, job[d].todo \ {x})
    BY <1>1, <1>3, <2>1 DEF NextPayload
  <2>3. job'[d].at = "chromium" /\ job'[d].doc = Effective(d)
    BY <1>3, <2>2 DEF Apply
  <2>4. \A y : Progress(d, y)'
    BY <2>3 DEF Progress, At
  <2>5. QED
    BY <1>2, <2>3, <2>4 DEF Undisturbed, At
<1>7. QED
  BY <1>4, <1>5, <1>6

\* Every step that leaves a tick undisturbed leaves it on its course.
LEMMA CleanStep ==
  ASSUME TypeInv, CleanInv, [Next]_vars
  PROVE  CleanInv'
<1> USE ConstantFacts
<1> SUFFICES ASSUME NEW d \in clean' PROVE Undisturbed(d)'
  BY DEF CleanInv
<1>1. clean \subseteq Devices /\ override \in [Devices -> Docs \cup {None}]
      /\ hb \in [Devices -> Heartbeats]
  BY DEF TypeInv, TypeOK
<1>2. CASE UNCHANGED vars
  BY <1>1, <1>2, UndisturbedElsewhere DEF CleanInv, vars
<1>3. ASSUME NEW q \in Puts,
             \/ \E b \in Bodies : PutGlobal(q, b)
             \/ \E e \in Devices, o \in Overrides \cup {None} : PutOverride(q, e, o)
             \/ QueueApply(q) \/ ServerDies(q)
      PROVE  Undisturbed(d)'
  <2>1. ~\E b \in Bodies : PutGlobal(q, b)
    BY DEF PutGlobal
  <2>2. /\ d \in clean /\ global' = global /\ override'[d] = override[d]
        /\ hb' = hb /\ job' = job /\ files' = files
    BY <1>1, <1>3, <2>1 DEF PutOverride, QueueApply, ServerDies
  <2>3. QED
    BY <1>1, <2>2, UndisturbedElsewhere DEF CleanInv
<1>4. ASSUME NEW e \in SwitchedOn, e # d,
             \/ StartTick(e) \/ ReadGlobal(e) \/ ReadOverride(e) \/ FetchPending(e)
             \/ ReceivePolicy(e) \/ DropHeartbeat(e)
             \/ ApplyPart(e) \/ FinishTick(e) \/ Restart(e)
             \/ \E p \in job[e].todo : NextPayload(e, p)
             \/ WriteFails(e) \/ DownloadFails(e) \/ WaydroidFails(e) \/ Hangs(e)
      PROVE  Undisturbed(d)'
  <2>1. CASE \/ StartTick(e) \/ ReadGlobal(e) \/ ReadOverride(e) \/ FetchPending(e)
             \/ ReceivePolicy(e) \/ DropHeartbeat(e)
    <3>1. /\ d \in clean /\ UNCHANGED <<global, override>>
          /\ hb'[d] = hb[d] /\ job'[d] = job[d] /\ files' = files
      BY <1>1, <1>4, <2>1 DEF StartTick, ReadGlobal, ReadOverride, FetchPending,
              ReceivePolicy, DropHeartbeat, FaultOf, server, TypeInv, TypeOK
    <3>2. QED
      BY <1>1, <3>1, UndisturbedElsewhere DEF CleanInv
  <2>2. CASE \/ ApplyPart(e) \/ FinishTick(e) \/ Restart(e)
             \/ \E p \in job[e].todo : NextPayload(e, p)
             \/ WriteFails(e) \/ DownloadFails(e) \/ WaydroidFails(e) \/ Hangs(e)
    <3>1. /\ clean' \subseteq clean /\ UNCHANGED server
          /\ hb' = hb \/ hb' = [hb EXCEPT ![e] = NoRequest]
          /\ \A x \in Devices \ {e} : job'[x] = job[x] /\ files'[x] = files[x]
      BY <2>2, AgentFrame
    <3>2. d \in clean /\ d \in Devices /\ hb'[d] = hb[d]
      BY <1>1, <1>4, <3>1
    <3>3. QED
      BY <1>4, <3>1, <3>2, UndisturbedElsewhere DEF CleanInv, server
  <2>3. QED
    BY <1>4, <2>1, <2>2
<1>5. ASSUME d \in SwitchedOn,
             \/ StartTick(d) \/ ReadGlobal(d) \/ ReadOverride(d) \/ FetchPending(d)
             \/ ReceivePolicy(d)
      PROVE  Undisturbed(d)'
  <2>1. d \in clean \/ StartTick(d)
    BY <1>5 DEF ReadGlobal, ReadOverride, FetchPending, ReceivePolicy
  <2>2. QED
    BY <1>5, <2>1, HeartbeatUndisturbed DEF CleanInv
<1>6. ASSUME d \in SwitchedOn,
             \/ ApplyPart(d) \/ FinishTick(d)
             \/ \E p \in job[d].todo : NextPayload(d, p)
      PROVE  Undisturbed(d)'
  <2>1. d \in clean
    BY <1>6, AgentFrame
  <2>2. QED
    BY <1>6, <2>1, AgentUndisturbed DEF CleanInv
<1>7. ~(\/ DropHeartbeat(d) \/ Restart(d) \/ WriteFails(d) \/ DownloadFails(d)
        \/ WaydroidFails(d) \/ Hangs(d))
  BY DEF DropHeartbeat, Restart, WriteFails, DownloadFails, WaydroidFails, Hangs, FaultOf
<1>8. CASE Next
  <2>1. ASSUME NEW e \in SwitchedOn,
               \/ StartTick(e) \/ ReadGlobal(e) \/ ReadOverride(e) \/ FetchPending(e)
               \/ ReceivePolicy(e) \/ DropHeartbeat(e)
               \/ ApplyPart(e) \/ FinishTick(e) \/ Restart(e)
               \/ \E p \in job[e].todo : NextPayload(e, p)
               \/ WriteFails(e) \/ DownloadFails(e) \/ WaydroidFails(e) \/ Hangs(e)
        PROVE  Undisturbed(d)'
    <3>1. CASE e # d
      BY <1>4, <2>1, <3>1
    <3>2. CASE e = d
      BY <1>5, <1>6, <1>7, <2>1, <3>2
    <3>3. QED
      BY <3>1, <3>2
  <2>2. QED
    BY <1>3, <1>8, <2>1 DEF Next
<1>9. QED
  BY <1>2, <1>8

\* One undisturbed tick is enough to bring the whole machine to its policy,
\* whatever it had before.
THEOREM OneTickRepairs == Spec => []TickRepairs
<1>1. Init => CleanInv
  BY DEF Init, CleanInv
<1>2. TypeInv /\ CleanInv /\ [Next]_vars => CleanInv'
  BY CleanStep
<1>3. CleanInv => TickRepairs
  BY DEF CleanInv, Undisturbed, TickRepairs
<1>4. QED
  BY <1>1, <1>2, <1>3, TypeInvInvariant, PTL DEF Spec
=============================================================================
