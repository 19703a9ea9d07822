---------------------------- MODULE ShellSettings ----------------------------
(***************************************************************************)
(* The settings of a machine: /var/lib/pallet/settings.json, the handlers  *)
(* of the shell service that read and write it (shell/cmd/pallet-shell/    *)
(* main.go, display.go), the screen as pallet-x11-display sets it, and the *)
(* settings panel of the desktop (shell/frontend/src/Settings.tsx, api.ts).*)
(*                                                                         *)
(* The service serves requests in parallel and takes no lock: saving is a  *)
(* read, a truncation and a write, and applying a second read and a change *)
(* of the screen.  The module has no specification of its own: ShellDesktop*)
(* adds the shelf and the restarts of the service.                         *)
(*                                                                         *)
(* Abstractions.  The four display fields, always sent and stored together,*)
(* are one value; the script, which reads the file once for every field,   *)
(* gets any mixture when the file has changed between its first read and   *)
(* its setting of the screen.  That the form shows the current output and  *)
(* mode for empty ones, the update status, telemetry and sections of the   *)
(* panel are left out, and so is the marker of a forced update check (see  *)
(* OtaUpdate).                                                             *)
(***************************************************************************)
EXTENDS Naturals

CONSTANTS
    Displays,   \* values of the display settings
    Automatic,  \* automatic detection, the default
    Slots,      \* requests of the panel at the same time (a bound), numbers:
                \* a new one takes the first that is free
    Start,      \* the settings a machine may start with
    Torn,       \* a file that is no JSON: truncated, or two writes mixed
    None,
    MaxFaults,  \* restarts and failures (a bound)
    MaxClicks   \* what the user and the policy do (a bound)

ASSUME SettingsAssumption ==
    /\ Automatic \in Displays /\ Slots \subseteq Nat
    /\ None \notin BOOLEAN \cup Displays
    /\ MaxFaults \in Nat /\ MaxClicks \in Nat

Settings == [auto : BOOLEAN, display : Displays]
Defaults == [auto |-> TRUE, display |-> Automatic]

\* A file and a missing answer are no settings.
ASSUME TornAssumption ==
    Torn \notin Settings /\ None \notin Settings /\ Start \subseteq Settings

VARIABLES
    file,       \* settings.json
    screen,     \* what the display shows
    calls,      \* the requests of the panel
    open,       \* the panel is on the screen
    data,       \* the settings it has loaded
    form,       \* its display form
    saving,     \* Apply and the update switch wait
    checking,   \* the update button waits
    wanted,     \* the settings the user has asked for, in order (history)
    disturbed,  \* a panel was closed while it saved, or a step failed (history)
    clicks, faults

panel    == <<open, data, form, saving, checking>>
disk     == <<file, screen>>
history  == <<wanted, disturbed>>
budget   == <<clicks, faults>>
settings == <<disk, calls, panel, history>>

-----------------------------------------------------------------------------
\* A change of some settings (SettingsPatch).
Patches == [auto : BOOLEAN \cup {None}, display : Displays \cup {None}]
NoPatch == [auto |-> None, display |-> None]

\* "live": the panel that waits for the answer is still there; "after": the
\* load that ends a save.
Calls ==
    [kind : {"none", "get", "put", "check"},
     at : {"sent", "read", "truncated", "written", "applying", "ok", "failed"},
     live : BOOLEAN, after : BOOLEAN, patch : Patches,
     value : Settings \cup {None}]
NoCall ==
    [kind |-> "none", at |-> "sent", live |-> FALSE, after |-> FALSE,
     patch |-> NoPatch, value |-> None]
Call(kind) == [NoCall EXCEPT !.kind = kind, !.live = TRUE]

SettingsTypeOK ==
    /\ file   \in Settings \cup {Torn}
    /\ screen \in Displays
    /\ calls  \in [Slots -> Calls]
    /\ open \in BOOLEAN /\ saving \in BOOLEAN /\ checking \in BOOLEAN
    /\ data   \in Settings \cup {None}
    /\ form   \in Displays
    /\ wanted \in Settings /\ disturbed \in BOOLEAN
    /\ clicks \in Nat /\ faults \in Nat

\* The desktop has just started: its session has set the screen.
SettingsInit ==
    /\ file \in Start /\ screen = file.display
    /\ calls = [s \in Slots |-> NoCall]
    /\ open = FALSE /\ data = None /\ form = Automatic
    /\ saving = FALSE /\ checking = FALSE
    /\ wanted = file /\ disturbed = FALSE
    /\ clicks = MaxClicks /\ faults = MaxFaults

Click == clicks > 0 /\ clicks' = clicks - 1 /\ UNCHANGED faults
Fault == faults > 0 /\ faults' = faults - 1 /\ UNCHANGED clicks

-----------------------------------------------------------------------------
(* The service.                                                            *)

\* loadDeviceSettingsFile: a file that cannot be read means the defaults.
Current == IF file = Torn THEN Defaults ELSE file

Patched(v, p) ==
    [auto    |-> IF p.auto = None THEN v.auto ELSE p.auto,
     display |-> IF p.display = None THEN v.display ELSE p.display]

At(s, kind, at) == calls[s].kind = kind /\ calls[s].at = at

\* Mutant: the file as it is, without the defaults.
ServeGet_raw(s) ==
    /\ At(s, "get", "sent")
    /\ calls' = [calls EXCEPT ![s].at = "ok", ![s].value = file]
    /\ UNCHANGED <<disk, panel, history, budget>>

\* GET: the settings as they are, between two steps of a save too.
ServeGet(s) ==
    /\ At(s, "get", "sent")
    /\ calls' = [calls EXCEPT ![s].at = "ok", ![s].value = Current]
    /\ UNCHANGED <<disk, panel, history, budget>>

\* POST check-updates.
ServeCheck(s) ==
    /\ At(s, "check", "sent")
    /\ calls' = [calls EXCEPT ![s].at = "ok"]
    /\ UNCHANGED <<disk, panel, history, budget>>

\* PUT reads the file and changes what the body names.
ReadSettings(s) ==
    /\ At(s, "put", "sent")
    /\ calls' = [calls EXCEPT ![s].at = "read",
                              ![s].value = Patched(Current, calls[s].patch)]
    /\ UNCHANGED <<disk, panel, history, budget>>

\* os.WriteFile truncates the file ...
TruncateFile(s) ==
    /\ At(s, "put", "read")
    /\ file' = Torn
    /\ calls' = [calls EXCEPT ![s].at = "truncated"]
    /\ UNCHANGED <<screen, panel, history, budget>>

\* Mutant: the display is not applied after a save.
WriteFile_unapplied(s) ==
    /\ At(s, "put", "truncated")
    /\ file' = calls[s].value
    /\ calls' = [calls EXCEPT ![s].at = "ok"]
    /\ UNCHANGED <<screen, panel, history, budget>>

\* ... and writes: over what another request has written meanwhile, whose end
\* may stay behind the new text.
WriteFile(s) ==
    /\ At(s, "put", "truncated")
    /\ \/ file' = calls[s].value
       \/ file # Torn /\ file' = Torn
    /\ calls' = [calls EXCEPT ![s].at =
                     IF calls[s].patch.display = None THEN "ok" ELSE "written"]
    /\ UNCHANGED <<screen, panel, history, budget>>

\* The disk is full: the file stays empty, and the answer is a 500, which the
\* panel takes for success.
WriteFails(s) ==
    /\ Fault /\ disturbed' = TRUE
    /\ At(s, "put", "truncated")
    /\ file' = Torn
    /\ calls' = [calls EXCEPT ![s].at = "ok"]
    /\ UNCHANGED <<screen, panel, wanted>>

\* pallet-x11-display apply reads the file ...
ReadDisplay(s) ==
    /\ At(s, "put", "written")
    /\ calls' = [calls EXCEPT ![s].at = "applying", ![s].value = Current]
    /\ UNCHANGED <<disk, panel, history, budget>>

\* ... and sets the screen: to what it read, or to fields of several versions
\* of the file if that is another one by now.
SetScreen(s) ==
    /\ At(s, "put", "applying")
    /\ \/ screen' = calls[s].value.display
       \/ Current.display # calls[s].value.display /\ screen' \in Displays
    /\ calls' = [calls EXCEPT ![s].at = "ok"]
    /\ UNCHANGED <<file, panel, history, budget>>

\* The hardware refuses: automatic detection, or nothing; the service ignores
\* the script's error.
SetScreenFails(s) ==
    /\ Fault /\ disturbed' = TRUE
    /\ At(s, "put", "applying")
    /\ screen' \in {screen, Automatic}
    /\ calls' = [calls EXCEPT ![s].at = "ok"]
    /\ UNCHANGED <<file, panel, wanted>>

-----------------------------------------------------------------------------
(* The panel.                                                              *)

Answered(s, kind, at) ==
    /\ At(s, kind, at) /\ calls[s].live
    /\ calls' = [calls EXCEPT ![s] = NoCall]
    /\ UNCHANGED <<disk, history, budget>>

\* Mutant: nothing ends a save (no "finally").
GetDone_keeps(s) ==
    /\ Answered(s, "get", "ok")
    /\ data' = calls[s].value
    /\ form' = calls[s].value.display
    /\ UNCHANGED <<open, saving, checking>>

\* load: the settings and the form are replaced, whatever the user has chosen.
GetDone(s) ==
    /\ Answered(s, "get", "ok")
    /\ data' = calls[s].value
    /\ form' = calls[s].value.display
    /\ saving' = (saving /\ ~calls[s].after)
    /\ UNCHANGED <<open, checking>>

GetFailed(s) ==
    /\ Answered(s, "get", "failed")
    /\ saving' = (saving /\ ~calls[s].after)
    /\ UNCHANGED <<open, data, form, checking>>

\* A save goes on to load; its status is not looked at.
PutDone(s) ==
    /\ At(s, "put", "ok") /\ calls[s].live
    /\ calls' = [calls EXCEPT ![s] = [Call("get") EXCEPT !.after = TRUE]]
    /\ UNCHANGED <<disk, panel, history, budget>>

PutFailed(s) ==
    /\ Answered(s, "put", "failed")
    /\ saving' = FALSE
    /\ UNCHANGED <<open, data, form, checking>>

CheckDone(s) ==
    /\ \E at \in {"ok", "failed"} : Answered(s, "check", at)
    /\ checking' = FALSE
    /\ UNCHANGED <<open, data, form, saving>>

\* An answer for a panel that was closed.
Unheard(s) ==
    /\ calls[s].kind # "none" /\ ~calls[s].live
    /\ calls[s].at \in {"ok", "failed"}
    /\ calls' = [calls EXCEPT ![s] = NoCall]
    /\ UNCHANGED <<disk, panel, history, budget>>

Send(s, c) ==
    /\ open
    /\ calls[s].kind = "none" /\ \A r \in Slots : r < s => calls[r].kind # "none"
    /\ calls' = [calls EXCEPT ![s] = c]
    /\ UNCHANGED disk

\* Mutant: the panel loads once.
SettingsPoll_once(s) == data = None /\ Send(s, Call("get"))
                        /\ UNCHANGED <<panel, history, budget>>

\* load on opening, every 8 seconds, and 2 seconds after an update check.
SettingsPoll(s) ==
    /\ Send(s, Call("get"))
    /\ UNCHANGED <<panel, history, budget>>

Put(s, p) ==
    /\ Send(s, [Call("put") EXCEPT !.patch = p])
    /\ saving' = TRUE
    /\ wanted' = Patched(wanted, p)
    /\ UNCHANGED <<open, data, form, checking, disturbed>>

\* The switch of the automatic updates: the opposite of what is shown.
ToggleAuto(s) ==
    /\ Click
    /\ data # None /\ ~saving
    /\ Put(s, [NoPatch EXCEPT !.auto = ~data.auto])

\* Mutant: the button is not disabled while a save is under way.
ApplyDisplay_again(s) ==
    /\ Click
    /\ data # None
    /\ Put(s, [NoPatch EXCEPT !.display = form])

ApplyDisplay(s) ==
    /\ Click
    /\ data # None /\ ~saving
    /\ Put(s, [NoPatch EXCEPT !.display = form])

CheckNow(s) ==
    /\ Click
    /\ data # None /\ ~checking
    /\ Send(s, Call("check"))
    /\ checking' = TRUE
    /\ UNCHANGED <<open, data, form, saving, history>>

EditForm(d) ==
    /\ Click
    /\ open /\ data # None
    /\ form' = d
    /\ UNCHANGED <<disk, calls, open, data, saving, checking, history>>

\* A new panel, with nothing loaded and nothing waiting.
OpenPanel ==
    /\ Click
    /\ ~open
    /\ open' = TRUE
    /\ data' = None /\ form' = Automatic /\ saving' = FALSE /\ checking' = FALSE
    /\ UNCHANGED <<disk, calls, history>>

\* What it had asked for goes on without it.
ClosePanel ==
    /\ Click
    /\ open
    /\ open' = FALSE
    /\ data' = None /\ form' = Automatic /\ saving' = FALSE /\ checking' = FALSE
    /\ calls' = [s \in Slots |-> [calls[s] EXCEPT !.live = FALSE]]
    /\ disturbed' = (disturbed \/ saving)
    /\ UNCHANGED <<disk, wanted>>

\* The service stops in the middle of what it does.
SettingsRestart ==
    /\ Fault /\ disturbed' = TRUE
    /\ calls' = [s \in Slots |->
                    IF calls[s].kind = "none" \/ calls[s].at = "ok"
                    THEN calls[s] ELSE [calls[s] EXCEPT !.at = "failed"]]
    /\ UNCHANGED <<disk, panel, wanted>>

-----------------------------------------------------------------------------
Serve(s) == \/ ServeGet(s) \/ ServeCheck(s)
            \/ ReadSettings(s) \/ TruncateFile(s) \/ WriteFile(s)
            \/ ReadDisplay(s) \/ SetScreen(s)
Hear(s) == \/ GetDone(s) \/ GetFailed(s) \/ PutDone(s) \/ PutFailed(s)
           \/ CheckDone(s) \/ Unheard(s)

SettingsNext ==
    \/ \E s \in Slots : \/ Serve(s) \/ WriteFails(s) \/ SetScreenFails(s)
                        \/ Hear(s) \/ SettingsPoll(s)
                        \/ ToggleAuto(s) \/ ApplyDisplay(s) \/ CheckNow(s)
    \/ \E d \in Displays : EditForm(d)
    \/ OpenPanel \/ ClosePanel

\* What the service has begun it ends, answers arrive, and the interval
\* fires: strongly fair because the slots are a bound of the model.
SettingsFairness ==
    /\ \A s \in Slots : WF_settings(Serve(s)) /\ WF_settings(Hear(s))
    /\ SF_settings(\E s \in Slots : SettingsPoll(s))
=============================================================================
