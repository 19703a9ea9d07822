----------------------------- MODULE ShellDesktop -----------------------------
(***************************************************************************)
(* The desktop of a machine: the page of shell/frontend/src/App.tsx with   *)
(* its launcher, its shelf and its settings panel (ShellSettings), and the *)
(* shell service (shell/cmd/pallet-shell/main.go), which an update or a    *)
(* crash restarts.                                                         *)
(*                                                                         *)
(* Abstractions.  The apps the service offers (built in, from the policy,  *)
(* from Android) change at any time; the search, the clock, the wallpaper, *)
(* the quick settings and the telemetry are left out.                      *)
(***************************************************************************)
EXTENDS ShellSettings

CONSTANTS
    Apps,
    Pinned,     \* on the shelf when they are offered
    Lines       \* requests of the page at the same time (a bound), like Slots

ASSUME DesktopAssumption ==
    Pinned \subseteq Apps /\ None \notin Apps /\ Lines \subseteq Nat

VARIABLES
    apps,       \* what the service offers
    running,    \* what it has launched since it started
    shelf,      \* the config of the page: apps and running
    launcher,   \* the launcher is open
    asks        \* the requests for the config and the launches

page == <<shelf, launcher>>
desktop == <<apps, running, page, asks>>
vars == <<settings, desktop, budget>>

-----------------------------------------------------------------------------
Configs == [apps : SUBSET Apps, running : SUBSET Apps]
NoConfig == [apps |-> {}, running |-> {}]

Asks == [kind : {"none", "config", "launch"}, at : {"sent", "ok", "failed"},
         app : Apps \cup {None}, config : Configs]
NoAsk == [kind |-> "none", at |-> "sent", app |-> None, config |-> NoConfig]

\* The variables of the service, the panel, the launcher and the shelf have
\* the types the code gives them: the file holds settings or is torn, and only
\* apps are offered, run and shown.
TypeOK ==
    /\ SettingsTypeOK
    /\ apps \subseteq Apps /\ running \subseteq Apps
    /\ shelf \in Configs
    /\ launcher \in BOOLEAN
    /\ asks \in [Lines -> Asks]

Init ==
    /\ SettingsInit
    /\ apps = Apps /\ running = {}
    /\ shelf = NoConfig /\ launcher = FALSE
    /\ asks = [l \in Lines |-> NoAsk]

-----------------------------------------------------------------------------
Ready(l, kind, at) == asks[l].kind = kind /\ asks[l].at = at

\* GET /api/config.
ServeConfig(l) ==
    /\ Ready(l, "config", "sent")
    /\ asks' = [asks EXCEPT ![l].at = "ok",
                            ![l].config = [apps |-> apps, running |-> running]]
    /\ UNCHANGED <<apps, running, page, settings, budget>>

\* POST /api/launch: an app no longer offered, or that does not start, is an
\* answer like any other to the page; what was launched stays in the list.
ServeLaunch(l) ==
    /\ Ready(l, "launch", "sent")
    /\ asks' = [asks EXCEPT ![l].at = "ok"]
    /\ \/ asks[l].app \in apps /\ running' = running \cup {asks[l].app}
       \/ UNCHANGED running
    /\ UNCHANGED <<apps, page, settings, budget>>

Done(l, kind, at) ==
    /\ Ready(l, kind, at)
    /\ asks' = [asks EXCEPT ![l] = NoAsk]
    /\ UNCHANGED <<apps, running, settings, budget>>

ConfigDone(l) ==
    /\ Done(l, "config", "ok")
    /\ shelf' = asks[l].config
    /\ UNCHANGED launcher

\* onLaunch: the app is shown as running whatever the answer was.
LaunchDone(l) ==
    /\ Done(l, "launch", "ok")
    /\ launcher' = FALSE
    /\ shelf' = [shelf EXCEPT !.running = @ \cup {asks[l].app}]

\* A config is asked for again; the rejection of a launch is not caught.
AskFailed(l) ==
    /\ \E kind \in {"config", "launch"} : Done(l, kind, "failed")
    /\ UNCHANGED page

Ask(l, r) ==
    /\ asks[l].kind = "none" /\ \A k \in Lines : k < l => asks[k].kind # "none"
    /\ asks' = [asks EXCEPT ![l] = r]
    /\ UNCHANGED <<apps, running, shelf, settings>>

\* Mutant: the config is not asked for again once it is there.
ConfigPoll_once(l) ==
    /\ shelf = NoConfig
    /\ Ask(l, [NoAsk EXCEPT !.kind = "config"])
    /\ UNCHANGED <<launcher, budget>>

\* The interval of 5 seconds, which begins with a request.
ConfigPoll(l) ==
    /\ Ask(l, [NoAsk EXCEPT !.kind = "config"])
    /\ UNCHANGED <<launcher, budget>>

\* The apps on the shelf.
shelfApps == shelf.apps \cap (Pinned \cup shelf.running)

\* A click in the launcher or on the shelf.
Launch(l, a) ==
    /\ Click
    /\ \/ launcher /\ a \in shelf.apps
       \/ a \in shelfApps
    /\ Ask(l, [NoAsk EXCEPT !.kind = "launch", !.app = a])
    /\ UNCHANGED launcher

ToggleLauncher ==
    /\ Click
    /\ launcher' = ~launcher
    /\ UNCHANGED <<apps, running, shelf, asks, settings>>

\* A policy or Android offers other apps.
OfferApps ==
    /\ Click
    /\ apps' \in SUBSET Apps \ {apps}
    /\ UNCHANGED <<running, page, asks, settings>>

\* The service is restarted: the list of what runs is lost.
Restart ==
    /\ SettingsRestart
    /\ running' = {}
    /\ asks' = [l \in Lines |->
                   IF Ready(l, "none", "sent") \/ asks[l].at = "ok"
                   THEN asks[l] ELSE [asks[l] EXCEPT !.at = "failed"]]
    /\ UNCHANGED <<apps, page>>

-----------------------------------------------------------------------------
ServeAsk(l) == ServeConfig(l) \/ ServeLaunch(l)
HearAsk(l)  == ConfigDone(l) \/ LaunchDone(l) \/ AskFailed(l)

Next ==
    \/ SettingsNext /\ UNCHANGED desktop
    \/ \E l \in Lines : \/ ServeAsk(l) \/ HearAsk(l) \/ ConfigPoll(l)
                        \/ \E a \in Apps : Launch(l, a)
    \/ ToggleLauncher \/ OfferApps \/ Restart

Spec == Init /\ [][Next]_vars

\* As for the settings: requests are served and answered, the interval fires.
Fairness ==
    /\ SettingsFairness
    /\ \A l \in Lines : WF_desktop(ServeAsk(l)) /\ WF_desktop(HearAsk(l))
    /\ SF_desktop(\E l \in Lines : ConfigPoll(l))
FairSpec == Spec /\ Fairness

-----------------------------------------------------------------------------
Saves == {s \in Slots : calls[s].kind = "put"}

\* The panel disables its buttons while it saves, and so the service may do
\* without a lock: unless a panel was closed in the middle of a save or a step
\* failed, between saves the file holds all the user has asked for, nothing
\* lost, nothing reset to its default.
SettingsKept == ~disturbed /\ Saves = {} => file = wanted

\* In the same circumstances the screen shows the display settings of the
\* file: none is applied before it is stored, and none is overtaken.
ScreenFollows == ~disturbed /\ Saves = {} => screen = Current.display

\* Once the user leaves it alone, an open panel shows the settings of the file
\* for good, however the loads were overtaken and whatever was torn.
FormConverges ==
    <>[](open => data = Current /\ form = Current.display)

\* A button that was disabled is enabled again, if a restart loses the request
\* or its answer too.
ButtonsComeBack == /\ saving ~> ~saving
                   /\ checking ~> ~checking

\* The shelf ends, for good, with the apps offered and running: an app that
\* was shown as running and is not, because its launch failed or the service
\* forgot it, disappears.
ShelfConverges == <>[](shelf = [apps |-> apps, running |-> running])
=============================================================================
