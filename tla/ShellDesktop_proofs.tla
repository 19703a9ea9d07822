------------------------- MODULE ShellDesktop_proofs -------------------------
(***************************************************************************)
(* Proofs about ShellDesktop and its settings, for all display settings,   *)
(* apps and requests, and every bound.                                     *)
(***************************************************************************)
EXTENDS ShellDesktop, TLAPS

\* What is launched is an app.
LaunchesMeant == \A l \in Lines : asks[l].kind = "launch" => asks[l].app \in Apps

\* What a step of the desktop is for the settings.
SettingsStep ==
    \/ SettingsNext
    \/ SettingsRestart
    \/ UNCHANGED settings /\ (UNCHANGED budget \/ Click)

\* A request that has read the file, or is to answer with it, has settings.
ValuesRead ==
    \A s \in Slots :
        \/ /\ calls[s].kind = "put"
           /\ calls[s].at \in {"read", "truncated", "applying"}
        \/ calls[s].kind = "get" /\ calls[s].at = "ok"
        => calls[s].value \in Settings

\* A save, until the panel has loaded what it saved.
SaveOf(s) == calls[s].kind = "put" \/ (calls[s].kind = "get" /\ calls[s].after)

\* What a save has reached of the file and the screen.
Stored == file = wanted /\ screen = wanted.display
Reached(s) ==
    LET c == calls[s] IN
    /\ c.at # "failed"
    /\ c.at = "sent" => /\ file \in Settings /\ screen = file.display
                        /\ Patched(file, c.patch) = wanted
    /\ c.at \in {"read", "truncated"} =>
          /\ c.value = wanted
          /\ c.patch.display = None => screen = wanted.display
    /\ c.at = "truncated" => file = Torn
    /\ c.at \in {"written", "applying"} => file = wanted
    /\ c.at = "applying" => c.value = wanted
    /\ c.at = "ok" => Stored

\* A panel that saves waits for one save, nothing else does, and between saves
\* all is stored.
SaveInv ==
    /\ ~open => ~saving
    /\ ~disturbed =>
          /\ \A s \in Slots : SaveOf(s) => calls[s].live /\ saving
          /\ \A s, t \in Slots : SaveOf(s) /\ SaveOf(t) => s = t
          /\ \A s \in Slots : calls[s].kind = "put" => Reached(s)
          /\ Saves = {} => Stored

IInv == TypeOK /\ LaunchesMeant /\ ValuesRead /\ SaveInv

-----------------------------------------------------------------------------
\* What the assumptions say of the special values.
LEMMA SpecialValues ==
  Automatic \in Displays /\ Torn \notin Settings /\ None \notin Settings
BY SettingsAssumption, TornAssumption

\* The defaults, a changed setting and what the file means are settings.
LEMMA SettingsTypes ==
  /\ Defaults \in Settings
  /\ \A v \in Settings, p \in Patches : Patched(v, p) \in Settings
  /\ file \in Settings \cup {Torn} => Current \in Settings
<1>1. Defaults \in Settings
  BY SpecialValues DEF Defaults, Settings
<1>2. ASSUME NEW v \in Settings, NEW p \in Patches PROVE Patched(v, p) \in Settings
  <2> DEFINE a == IF p.auto = None THEN v.auto ELSE p.auto
             d == IF p.display = None THEN v.display ELSE p.display
  <2>1. /\ v.auto \in BOOLEAN /\ p.auto \in BOOLEAN \cup {None}
        /\ v.display \in Displays /\ p.display \in Displays \cup {None}
    BY DEF Settings, Patches
  <2>2. a \in BOOLEAN
    BY <2>1, Zenon
  <2>3. d \in Displays
    BY <2>1
  <2>4. QED
    BY <2>2, <2>3 DEF Patched, Settings
<1>3. ASSUME file \in Settings \cup {Torn} PROVE Current \in Settings
  BY <1>1, <1>3 DEF Current
<1>4. QED
  BY <1>1, <1>2, <1>3

\* New requests are requests, and changes of one setting are changes.
LEMMA CallTypes ==
  /\ NoPatch \in Patches
  /\ \A a \in BOOLEAN : [NoPatch EXCEPT !.auto = a] \in Patches
  /\ \A d \in Displays : [NoPatch EXCEPT !.display = d] \in Patches
  /\ NoCall \in Calls /\ NoCall.kind = "none"
  /\ \A kind \in {"get", "put", "check"} :
        /\ Call(kind) \in Calls
        /\ Call(kind).kind = kind /\ Call(kind).at = "sent"
        /\ Call(kind).live /\ ~Call(kind).after
  /\ [Call("get") EXCEPT !.after = TRUE] \in Calls
  /\ [Call("get") EXCEPT !.after = TRUE].kind = "get"
  /\ [Call("get") EXCEPT !.after = TRUE].at = "sent"
  /\ [Call("get") EXCEPT !.after = TRUE].live
  /\ \A p \in Patches :
        LET c == [Call("put") EXCEPT !.patch = p]
        IN  /\ c \in Calls /\ c.kind = "put" /\ c.at = "sent" /\ c.live
            /\ c.patch = p
BY DEF NoPatch, Patches, NoCall, Call, Calls

\* Steps of the desktop are steps of the settings, of the rest, or of both.
LEMMA StepsOfSettings == [Next]_vars => SettingsStep
BY DEF Next, vars, SettingsStep, ServeAsk, HearAsk, ServeConfig, ServeLaunch,
       ConfigDone, LaunchDone, AskFailed, Done, ConfigPoll, Launch, Ask,
       ToggleLauncher, OfferApps, Restart

-----------------------------------------------------------------------------
\* A step keeps the types of the settings.
LEMMA TypeStep == SettingsTypeOK /\ ValuesRead /\ SettingsStep => SettingsTypeOK'
<1> SUFFICES ASSUME SettingsTypeOK, ValuesRead, SettingsStep PROVE SettingsTypeOK'
  OBVIOUS
<1> USE DEF SettingsTypeOK, ValuesRead, Calls, disk, panel, history, budget
<1>1. ASSUME NEW s \in Slots, ServeGet(s) PROVE SettingsTypeOK'
  BY <1>1, SettingsTypes DEF ServeGet, At
<1>2. ASSUME NEW s \in Slots, ServeCheck(s) PROVE SettingsTypeOK'
  BY <1>2 DEF ServeCheck, At
<1>3. ASSUME NEW s \in Slots, ReadSettings(s) PROVE SettingsTypeOK'
  BY <1>3, SettingsTypes DEF ReadSettings, At
<1>4. ASSUME NEW s \in Slots, TruncateFile(s) PROVE SettingsTypeOK'
  BY <1>4 DEF TruncateFile, At
<1>5. ASSUME NEW s \in Slots, WriteFile(s) PROVE SettingsTypeOK'
  BY <1>5 DEF WriteFile, At
<1>6. ASSUME NEW s \in Slots, ReadDisplay(s) PROVE SettingsTypeOK'
  BY <1>6, SettingsTypes DEF ReadDisplay, At
<1>7. ASSUME NEW s \in Slots, SetScreen(s) PROVE SettingsTypeOK'
  <2>1. screen' \in Displays
    BY <1>7 DEF SetScreen, At, Settings
  <2>2. QED
    BY <1>7, <2>1 DEF SetScreen
<1>8. ASSUME NEW s \in Slots, WriteFails(s) PROVE SettingsTypeOK'
  BY <1>8 DEF WriteFails, At, Fault
<1>9. ASSUME NEW s \in Slots, SetScreenFails(s) PROVE SettingsTypeOK'
  BY <1>9, SpecialValues DEF SetScreenFails, At, Fault
<1>10. ASSUME NEW s \in Slots, GetDone(s) PROVE SettingsTypeOK'
  <2>1. data' \in Settings /\ form' \in Displays
    BY <1>10 DEF GetDone, Answered, At, Settings
  <2>2. calls' \in [Slots -> Calls]
    BY <1>10, CallTypes DEF GetDone, Answered
  <2>3. QED
    BY <1>10, <2>1, <2>2 DEF GetDone, Answered
<1>11. ASSUME NEW s \in Slots, GetFailed(s) PROVE SettingsTypeOK'
  BY <1>11, CallTypes DEF GetFailed, Answered, At
<1>12. ASSUME NEW s \in Slots, PutDone(s) PROVE SettingsTypeOK'
  BY <1>12, CallTypes DEF PutDone, At
<1>13. ASSUME NEW s \in Slots, PutFailed(s) PROVE SettingsTypeOK'
  BY <1>13, CallTypes DEF PutFailed, Answered, At
<1>14. ASSUME NEW s \in Slots, CheckDone(s) PROVE SettingsTypeOK'
  <2>1. calls' \in [Slots -> Calls]
    BY <1>14, CallTypes DEF CheckDone, Answered
  <2>2. QED
    BY <1>14, <2>1 DEF CheckDone, Answered
<1>15. ASSUME NEW s \in Slots, Unheard(s) PROVE SettingsTypeOK'
  BY <1>15, CallTypes DEF Unheard
<1>16. ASSUME NEW s \in Slots, SettingsPoll(s) PROVE SettingsTypeOK'
  BY <1>16, CallTypes DEF SettingsPoll, Send
<1>17. ASSUME NEW s \in Slots, ToggleAuto(s) PROVE SettingsTypeOK'
  <2> DEFINE p == [NoPatch EXCEPT !.auto = ~data.auto]
             c == [Call("put") EXCEPT !.patch = p]
  <2>1. p \in Patches /\ c \in Calls
    BY <1>17, CallTypes DEF ToggleAuto, Settings
  <2>2. calls' \in [Slots -> Calls]
    BY <1>17, <2>1 DEF ToggleAuto, Put, Send
  <2>3. wanted' \in Settings
    BY <1>17, <2>1, SettingsTypes DEF ToggleAuto, Put
  <2>4. clicks' \in Nat /\ faults' \in Nat
    BY <1>17 DEF ToggleAuto, Click
  <2>5. QED
    BY <1>17, <2>2, <2>3, <2>4 DEF ToggleAuto, Put, Send
<1>18. ASSUME NEW s \in Slots, ApplyDisplay(s) PROVE SettingsTypeOK'
  <2> DEFINE p == [NoPatch EXCEPT !.display = form]
             c == [Call("put") EXCEPT !.patch = p]
  <2>1. p \in Patches /\ c \in Calls
    BY <1>18, CallTypes DEF ApplyDisplay, Settings
  <2>2. calls' \in [Slots -> Calls]
    BY <1>18, <2>1 DEF ApplyDisplay, Put, Send
  <2>3. wanted' \in Settings
    BY <1>18, <2>1, SettingsTypes DEF ApplyDisplay, Put
  <2>4. clicks' \in Nat /\ faults' \in Nat
    BY <1>18 DEF ApplyDisplay, Click
  <2>5. QED
    BY <1>18, <2>2, <2>3, <2>4 DEF ApplyDisplay, Put, Send
<1>19. ASSUME NEW s \in Slots, CheckNow(s) PROVE SettingsTypeOK'
  BY <1>19, CallTypes DEF CheckNow, Send, Click
<1>20. ASSUME NEW d \in Displays, EditForm(d) PROVE SettingsTypeOK'
  BY <1>20 DEF EditForm, Click
<1>21. ASSUME OpenPanel PROVE SettingsTypeOK'
  <2>1. form' \in Displays
    BY <1>21, SpecialValues DEF OpenPanel
  <2>2. clicks' \in Nat /\ faults' \in Nat
    BY <1>21 DEF OpenPanel, Click
  <2>3. QED
    BY <1>21, <2>1, <2>2 DEF OpenPanel
<1>22. ASSUME ClosePanel PROVE SettingsTypeOK'
  <2>1. form' \in Displays
    BY <1>22, SpecialValues DEF ClosePanel
  <2>2. clicks' \in Nat /\ faults' \in Nat
    BY <1>22 DEF ClosePanel, Click
  <2>3. calls' \in [Slots -> Calls]
    <3>1. \A r \in Slots : [calls[r] EXCEPT !.live = FALSE] \in Calls
      OBVIOUS
    <3>2. QED
      BY <1>22, <3>1 DEF ClosePanel
  <2>4. disturbed' \in BOOLEAN
    BY <1>22, Zenon DEF ClosePanel
  <2>5. QED
    BY <1>22, <2>1, <2>2, <2>3, <2>4 DEF ClosePanel
<1>23. ASSUME SettingsRestart PROVE SettingsTypeOK'
  BY <1>23 DEF SettingsRestart, Fault
<1>24. ASSUME UNCHANGED settings /\ (UNCHANGED budget \/ Click)
       PROVE  SettingsTypeOK'
  BY <1>24 DEF settings, Click
<1>25. QED
  BY <1>1, <1>2, <1>3, <1>4, <1>5, <1>6, <1>7, <1>8, <1>9, <1>10, <1>11,
     <1>12, <1>13, <1>14, <1>15, <1>16, <1>17, <1>18, <1>19, <1>20, <1>21,
     <1>22, <1>23, <1>24
  DEF SettingsStep, SettingsNext, Serve, Hear

\* A step keeps what was read.
LEMMA ValuesStep == SettingsTypeOK /\ ValuesRead /\ SettingsStep => ValuesRead'
<1> SUFFICES ASSUME SettingsTypeOK, ValuesRead, SettingsStep PROVE ValuesRead'
  OBVIOUS
<1> USE DEF ValuesRead, SettingsTypeOK, Calls, disk, panel, history, budget
<1>1. ASSUME NEW s \in Slots, ServeGet(s) PROVE ValuesRead'
  BY <1>1, SettingsTypes DEF ServeGet, At
<1>2. ASSUME NEW s \in Slots, ServeCheck(s) PROVE ValuesRead'
  BY <1>2 DEF ServeCheck, At
<1>3. ASSUME NEW s \in Slots, ReadSettings(s) PROVE ValuesRead'
  BY <1>3, SettingsTypes DEF ReadSettings, At
<1>4. ASSUME NEW s \in Slots, TruncateFile(s) PROVE ValuesRead'
  BY <1>4 DEF TruncateFile, At
<1>5. ASSUME NEW s \in Slots, WriteFile(s) PROVE ValuesRead'
  BY <1>5 DEF WriteFile, At
<1>6. ASSUME NEW s \in Slots, ReadDisplay(s) PROVE ValuesRead'
  BY <1>6, SettingsTypes DEF ReadDisplay, At
<1>7. ASSUME NEW s \in Slots, SetScreen(s) PROVE ValuesRead'
  BY <1>7 DEF SetScreen, At, Settings
<1>8. ASSUME NEW s \in Slots, WriteFails(s) PROVE ValuesRead'
  BY <1>8 DEF WriteFails, At, Fault
<1>9. ASSUME NEW s \in Slots, SetScreenFails(s) PROVE ValuesRead'
  BY <1>9, SpecialValues DEF SetScreenFails, At, Fault
<1>10. ASSUME NEW s \in Slots, GetDone(s) PROVE ValuesRead'
  BY <1>10, CallTypes DEF GetDone, Answered, At, Settings
<1>11. ASSUME NEW s \in Slots, GetFailed(s) PROVE ValuesRead'
  BY <1>11, CallTypes DEF GetFailed, Answered, At
<1>12. ASSUME NEW s \in Slots, PutDone(s) PROVE ValuesRead'
  BY <1>12, CallTypes DEF PutDone, At
<1>13. ASSUME NEW s \in Slots, PutFailed(s) PROVE ValuesRead'
  BY <1>13, CallTypes DEF PutFailed, Answered, At
<1>14. ASSUME NEW s \in Slots, CheckDone(s) PROVE ValuesRead'
  BY <1>14, CallTypes DEF CheckDone, Answered, At
<1>15. ASSUME NEW s \in Slots, Unheard(s) PROVE ValuesRead'
  BY <1>15, CallTypes DEF Unheard
<1>16. ASSUME NEW s \in Slots, SettingsPoll(s) PROVE ValuesRead'
  BY <1>16, CallTypes DEF SettingsPoll, Send
<1>17. ASSUME NEW s \in Slots, ToggleAuto(s) PROVE ValuesRead'
  <2> DEFINE p == [NoPatch EXCEPT !.auto = ~data.auto]
             c == [Call("put") EXCEPT !.patch = p]
  <2>1. c.kind = "put" /\ c.at = "sent"
    BY DEF Call, NoCall
  <2>2. \A r \in Slots : calls'[r] = IF r = s THEN c ELSE calls[r]
    BY <1>17 DEF ToggleAuto, Put, Send
  <2>3. QED
    BY <1>17, <2>1, <2>2
<1>18. ASSUME NEW s \in Slots, ApplyDisplay(s) PROVE ValuesRead'
  <2> DEFINE p == [NoPatch EXCEPT !.display = form]
             c == [Call("put") EXCEPT !.patch = p]
  <2>1. c.kind = "put" /\ c.at = "sent"
    BY DEF Call, NoCall
  <2>2. \A r \in Slots : calls'[r] = IF r = s THEN c ELSE calls[r]
    BY <1>18 DEF ApplyDisplay, Put, Send
  <2>3. QED
    BY <1>18, <2>1, <2>2
<1>19. ASSUME NEW s \in Slots, CheckNow(s) PROVE ValuesRead'
  BY <1>19, CallTypes DEF CheckNow, Send, Click
<1>20. ASSUME NEW d \in Displays, EditForm(d) PROVE ValuesRead'
  BY <1>20 DEF EditForm, Click
<1>21. ASSUME OpenPanel PROVE ValuesRead'
  BY <1>21, SpecialValues DEF OpenPanel, Click
<1>22. ASSUME ClosePanel PROVE ValuesRead'
  BY <1>22, SpecialValues DEF ClosePanel, Click
<1>23. ASSUME SettingsRestart PROVE ValuesRead'
  BY <1>23 DEF SettingsRestart, Fault
<1>24. ASSUME UNCHANGED settings /\ (UNCHANGED budget \/ Click)
       PROVE  ValuesRead'
  BY <1>24 DEF settings, Click
<1>25. QED
  BY <1>1, <1>2, <1>3, <1>4, <1>5, <1>6, <1>7, <1>8, <1>9, <1>10, <1>11,
     <1>12, <1>13, <1>14, <1>15, <1>16, <1>17, <1>18, <1>19, <1>20, <1>21,
     <1>22, <1>23, <1>24
  DEF SettingsStep, SettingsNext, Serve, Hear

\* A step keeps saves apart, and what each has reached.
LEMMA SaveStep == SettingsTypeOK /\ ValuesRead /\ SaveInv /\ SettingsStep => SaveInv'
<1> SUFFICES ASSUME SettingsTypeOK, ValuesRead, SaveInv, SettingsStep PROVE SaveInv'
  OBVIOUS
<1> USE DEF SaveInv, SaveOf, Reached, Stored, Saves, SettingsTypeOK, Calls,
            disk, panel, history, budget
<1>1. ASSUME NEW s \in Slots, ServeGet(s) PROVE SaveInv'
  BY <1>1 DEF ServeGet, At
<1>2. ASSUME NEW s \in Slots, ServeCheck(s) PROVE SaveInv'
  BY <1>2 DEF ServeCheck, At
<1>3. ASSUME NEW s \in Slots, ReadSettings(s) PROVE SaveInv'
  <2>1. ~disturbed => Current = file
    BY <1>3, SpecialValues DEF ReadSettings, At, Current
  <2>2. QED
    BY <1>3, <2>1 DEF ReadSettings, At, Patched
<1>4. ASSUME NEW s \in Slots, TruncateFile(s) PROVE SaveInv'
  BY <1>4 DEF TruncateFile, At
<1>5. ASSUME NEW s \in Slots, WriteFile(s) PROVE SaveInv'
  BY <1>5 DEF WriteFile, At
<1>6. ASSUME NEW s \in Slots, ReadDisplay(s) PROVE SaveInv'
  <2>1. ~disturbed => Current = wanted
    BY <1>6, SpecialValues DEF ReadDisplay, At, Current
  <2>2. QED
    BY <1>6, <2>1 DEF ReadDisplay, At
<1>7. ASSUME NEW s \in Slots, SetScreen(s) PROVE SaveInv'
  <2>1. ~disturbed => Current = calls[s].value
    BY <1>7, SpecialValues DEF SetScreen, At, Current
  <2>2. QED
    BY <1>7, <2>1 DEF SetScreen, At, Settings
<1>8. ASSUME NEW s \in Slots, WriteFails(s) PROVE SaveInv'
  BY <1>8 DEF WriteFails, At, Fault
<1>9. ASSUME NEW s \in Slots, SetScreenFails(s) PROVE SaveInv'
  BY <1>9, SpecialValues DEF SetScreenFails, At, Fault
<1>10. ASSUME NEW s \in Slots, GetDone(s) PROVE SaveInv'
  BY <1>10, CallTypes DEF GetDone, Answered, At, Settings
<1>11. ASSUME NEW s \in Slots, GetFailed(s) PROVE SaveInv'
  BY <1>11, CallTypes DEF GetFailed, Answered, At
<1>12. ASSUME NEW s \in Slots, PutDone(s) PROVE SaveInv'
  BY <1>12, CallTypes DEF PutDone, At
<1>13. ASSUME NEW s \in Slots, PutFailed(s) PROVE SaveInv'
  BY <1>13, CallTypes DEF PutFailed, Answered, At
<1>14. ASSUME NEW s \in Slots, CheckDone(s) PROVE SaveInv'
  BY <1>14, CallTypes DEF CheckDone, Answered, At
<1>15. ASSUME NEW s \in Slots, Unheard(s) PROVE SaveInv'
  BY <1>15, CallTypes DEF Unheard
<1>16. ASSUME NEW s \in Slots, SettingsPoll(s) PROVE SaveInv'
  BY <1>16, CallTypes DEF SettingsPoll, Send
<1>17. ASSUME NEW s \in Slots, ToggleAuto(s) PROVE SaveInv'
  BY <1>17, CallTypes, SettingsTypes DEF ToggleAuto, Put, Send, Click
<1>18. ASSUME NEW s \in Slots, ApplyDisplay(s) PROVE SaveInv'
  BY <1>18, CallTypes, SettingsTypes DEF ApplyDisplay, Put, Send, Click
<1>19. ASSUME NEW s \in Slots, CheckNow(s) PROVE SaveInv'
  BY <1>19, CallTypes DEF CheckNow, Send, Click
<1>20. ASSUME NEW d \in Displays, EditForm(d) PROVE SaveInv'
  BY <1>20 DEF EditForm, Click
<1>21. ASSUME OpenPanel PROVE SaveInv'
  BY <1>21, SpecialValues DEF OpenPanel, Click
<1>22. ASSUME ClosePanel PROVE SaveInv'
  BY <1>22, SpecialValues DEF ClosePanel, Click
<1>23. ASSUME SettingsRestart PROVE SaveInv'
  BY <1>23 DEF SettingsRestart, Fault
<1>24. ASSUME UNCHANGED settings /\ (UNCHANGED budget \/ Click)
       PROVE  SaveInv'
  BY <1>24 DEF settings, Click
<1>25. QED
  BY <1>1, <1>2, <1>3, <1>4, <1>5, <1>6, <1>7, <1>8, <1>9, <1>10, <1>11,
     <1>12, <1>13, <1>14, <1>15, <1>16, <1>17, <1>18, <1>19, <1>20, <1>21,
     <1>22, <1>23, <1>24
  DEF SettingsStep, SettingsNext, Serve, Hear

-----------------------------------------------------------------------------
\* A step keeps the types of the shelf and the service.
LEMMA DesktopStep ==
  ASSUME apps \subseteq Apps, running \subseteq Apps, shelf \in Configs,
         launcher \in BOOLEAN, asks \in [Lines -> Asks], LaunchesMeant,
         [Next]_vars
  PROVE  /\ apps' \subseteq Apps /\ running' \subseteq Apps /\ shelf' \in Configs
         /\ launcher' \in BOOLEAN /\ asks' \in [Lines -> Asks]
         /\ LaunchesMeant'
<1> USE DEF Configs, Asks, page, LaunchesMeant
<1>1. NoAsk \in Asks /\ NoAsk.kind = "none"
  BY DEF NoAsk, NoConfig
<1>2. \A l \in Lines :
         [NoAsk EXCEPT !.kind = "config"] \in Asks
  BY <1>1
<1>3. \A a \in Apps : [NoAsk EXCEPT !.kind = "launch", !.app = a] \in Asks
  BY <1>1
<1>4. CASE SettingsNext /\ UNCHANGED desktop
  BY <1>4 DEF desktop
<1>5. ASSUME NEW l \in Lines, ServeAsk(l)
      PROVE  /\ apps' = apps /\ running' \subseteq Apps /\ UNCHANGED page
             /\ asks' \in [Lines -> Asks] /\ LaunchesMeant'
  BY <1>5 DEF ServeAsk, ServeConfig, ServeLaunch, Ready
<1>6. ASSUME NEW l \in Lines, HearAsk(l)
      PROVE  /\ apps' = apps /\ running' = running
             /\ shelf' \in Configs /\ launcher' \in BOOLEAN
             /\ asks' \in [Lines -> Asks] /\ LaunchesMeant'
  <2>1. CASE ConfigDone(l)
    BY <1>1, <2>1 DEF ConfigDone, Done, Ready
  <2>2. CASE LaunchDone(l)
    <3>1. asks[l].kind = "launch" /\ asks[l].app \in Apps
      BY <2>2 DEF LaunchDone, Done, Ready
    <3>2. QED
      BY <1>1, <2>2, <3>1 DEF LaunchDone, Done
  <2>3. CASE AskFailed(l)
    BY <1>1, <2>3 DEF AskFailed, Done
  <2>4. QED
    BY <1>6, <2>1, <2>2, <2>3 DEF HearAsk
<1>7. ASSUME NEW l \in Lines, ConfigPoll(l)
      PROVE  /\ UNCHANGED <<apps, running, page>>
             /\ asks' \in [Lines -> Asks] /\ LaunchesMeant'
  BY <1>2, <1>7 DEF ConfigPoll, Ask
<1>8. ASSUME NEW l \in Lines, NEW a \in Apps, Launch(l, a)
      PROVE  /\ UNCHANGED <<apps, running, page>>
             /\ asks' \in [Lines -> Asks] /\ LaunchesMeant'
  BY <1>3, <1>8 DEF Launch, Ask
<1>9. CASE ToggleLauncher \/ OfferApps
  BY <1>9 DEF ToggleLauncher, OfferApps
<1>10. CASE Restart
  BY <1>10 DEF Restart, Ready
<1>11. CASE UNCHANGED vars
  BY <1>11 DEF vars, desktop
<1>12. QED
  BY <1>4, <1>5, <1>6, <1>7, <1>8, <1>9, <1>10, <1>11 DEF Next

\* The invariant holds in the beginning and is kept by every step.
LEMMA Invariant == Spec => []IInv
<1>1. Init => IInv
  <2> SUFFICES ASSUME Init PROVE IInv
    OBVIOUS
  <2> USE SpecialValues, SettingsTypes, CallTypes
  <2>1. file \in Settings /\ wanted = file /\ screen = file.display
    BY TornAssumption DEF Init, SettingsInit
  <2>2. calls \in [Slots -> Calls] /\ \A s \in Slots : calls[s].kind = "none"
    BY DEF Init, SettingsInit
  <2>3. SettingsTypeOK
    BY <2>1, <2>2, SettingsAssumption
    DEF Init, SettingsInit, SettingsTypeOK, Settings
  <2>4. TypeOK
    BY <2>3 DEF Init, TypeOK, Configs, NoConfig, Asks, NoAsk
  <2>5. ValuesRead
    BY <2>2 DEF ValuesRead
  <2>6. LaunchesMeant
    BY DEF Init, NoAsk, LaunchesMeant
  <2>7. SaveInv
    BY <2>1, <2>2 DEF SaveInv, SaveOf, Stored, Init, SettingsInit
  <2>8. QED
    BY <2>4, <2>5, <2>6, <2>7 DEF IInv
<1>2. IInv /\ [Next]_vars => IInv'
  BY StepsOfSettings, TypeStep, ValuesStep, SaveStep, DesktopStep DEF IInv, TypeOK
<1>3. QED
  BY <1>1, <1>2, PTL DEF Spec

\* Every state of the desktop has its types: the file holds settings or is
\* torn, and the page shows only apps.
THEOREM TypeCorrect == Spec => []TypeOK
BY Invariant, PTL DEF IInv

\* Unless a panel was closed while it saved or a step failed, between saves the
\* file holds all the user has asked for.
THEOREM SettingsAreKept == Spec => []SettingsKept
<1>1. IInv => SettingsKept
  BY DEF IInv, SaveInv, Stored, SettingsKept
<1>2. QED
  BY <1>1, Invariant, PTL

\* In the same circumstances the screen shows what the file says.
THEOREM ScreenIsSet == Spec => []ScreenFollows
<1>1. IInv => ScreenFollows
  <2> SUFFICES ASSUME IInv, ~disturbed, Saves = {} PROVE screen = Current.display
    BY DEF ScreenFollows
  <2>1. file = wanted /\ screen = wanted.display /\ wanted \in Settings
    BY DEF IInv, SaveInv, Stored, TypeOK, SettingsTypeOK
  <2>2. QED
    BY <2>1, SpecialValues DEF Current
<1>2. QED
  BY <1>1, Invariant, PTL
=============================================================================
