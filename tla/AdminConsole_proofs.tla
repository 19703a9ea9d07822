------------------------- MODULE AdminConsole_proofs -------------------------
(***************************************************************************)
(* Proofs about AdminConsole, for all devices, policies, sessions, keys    *)
(* and requests, and every bound.                                          *)
(***************************************************************************)
EXTENDS AdminConsole, TLAPS

\* What a request carries, according to its kind: a save a policy, the answer
\* to a login a session, that to a request for a key a key this very session
\* asked for.
RequestsMeant ==
    \A s \in Slots :
        /\ req[s].kind = "save" => req[s].policy \in Policies
        /\ req[s].kind = "login" /\ req[s].at = "ok" => req[s].got \in Sessions
        /\ req[s].kind = "key" => req[s].token \in Sessions
        /\ req[s].kind = "key" /\ req[s].at = "ok" =>
              req[s].got \in Keys /\ asked[req[s].got] = req[s].token

\* A panel that waits for a key asked with the session of the page.
PanelInv ==
    /\ KeyOfSession
    /\ \A s \in Slots :
          req[s].kind = "key" /\ req[s].live => req[s].token = token

\* One login at a time is waited for, and only by a page that is signed out.
LoginInv ==
    /\ \A s \in Slots :
          req[s].kind = "login" /\ req[s].live => token = None /\ loading
    /\ \A s, t \in Slots :
          /\ req[s].kind = "login" /\ req[s].live
          /\ req[t].kind = "login" /\ req[t].live
          => s = t

IInv == TypeOK /\ RequestsMeant /\ PanelInv /\ LoginInv

-----------------------------------------------------------------------------
\* What the assumptions say of the special values.
LEMMA SpecialValues ==
  /\ None \notin Policies /\ None \notin Sessions /\ None \notin Keys
  /\ None \notin Tables /\ None \notin Devices
BY ConsoleAssumption DEF Tables

\* A new request, and none, are requests.
LEMMA RequestTypes ==
  /\ NoRequest \in Requests
  /\ NoRequest.kind = "none" /\ ~NoRequest.live
  /\ \A kind \in {"refresh", "login", "key", "save", "command"},
        t \in Sessions \cup {None} :
        /\ Request(kind, t) \in Requests
        /\ Request(kind, t).kind = kind /\ Request(kind, t).at = "sent"
        /\ Request(kind, t).token = t
BY DEF NoRequest, Request, Requests

\* A request that saves and one with a command are of these kinds.
LEMMA ChangeKinds ==
  /\ \A t, x : LET r == [Request("save", t) EXCEPT !.policy = x]
               IN  r.kind = "save" /\ r.policy = x
  /\ \A t, d, lock :
        [Request("command", t) EXCEPT !.target = d, !.lock = lock].kind = "command"
BY DEF Request, NoRequest

\* When the components that wait for kinds are gone, the requests stay what
\* they are, and nobody waits for these.
LEMMA DeafKeeps ==
  ASSUME req \in [Slots -> Requests], NEW kinds
  PROVE  /\ Deaf(kinds) \in [Slots -> Requests]
         /\ \A s \in Slots :
               /\ Deaf(kinds)[s].kind = req[s].kind
               /\ Deaf(kinds)[s].at = req[s].at
               /\ Deaf(kinds)[s].token = req[s].token
               /\ Deaf(kinds)[s].policy = req[s].policy
               /\ Deaf(kinds)[s].got = req[s].got
               /\ Deaf(kinds)[s].live => req[s].live /\ req[s].kind \notin kinds
BY DEF Deaf, Requests

-----------------------------------------------------------------------------
\* A step keeps the types, given that requests carry what they should.
LEMMA TypeStep == TypeOK /\ RequestsMeant /\ [Next]_vars => TypeOK'
<1> SUFFICES ASSUME TypeOK, RequestsMeant, [Next]_vars PROVE TypeOK'
  OBVIOUS
<1> USE SpecialValues, RequestTypes
    DEF TypeOK, Requests, Tables, server, page, NoClick
<1>1. ASSUME NEW s \in Slots, ServeLogin(s) PROVE TypeOK'
  BY <1>1 DEF ServeLogin, Serving, Refuse
<1>2. ASSUME NEW s \in Slots, ServeDevices(s) PROVE TypeOK'
  BY <1>2 DEF ServeDevices, Serving, Refuse, Authorized
<1>3. ASSUME NEW s \in Slots, ServePolicy(s) PROVE TypeOK'
  BY <1>3 DEF ServePolicy, Serving, Refuse, Authorized
<1>4. ASSUME NEW s \in Slots, ServeSave(s) PROVE TypeOK'
  BY <1>4 DEF ServeSave, Serving, Refuse, Authorized, RequestsMeant
<1>5. ASSUME NEW s \in Slots, ServeCommand(s) PROVE TypeOK'
  BY <1>5 DEF ServeCommand, Serving, Refuse, Authorized
<1>6. ASSUME NEW s \in Slots, ServeKey(s) PROVE TypeOK'
  BY <1>6 DEF ServeKey, Serving, Refuse, Authorized
<1>7. ASSUME NEW s \in Slots, RefreshDone(s) PROVE TypeOK'
  BY <1>7 DEF RefreshDone, Answered
<1>8. ASSUME NEW s \in Slots, RefreshFailed(s) PROVE TypeOK'
  BY <1>8 DEF RefreshFailed, Answered
<1>9. ASSUME NEW s \in Slots, LoginDone(s) PROVE TypeOK'
  BY <1>9 DEF LoginDone, Answered, RequestsMeant
<1>10. ASSUME NEW s \in Slots, LoginFailed(s) PROVE TypeOK'
  BY <1>10 DEF LoginFailed, Answered
<1>11. ASSUME NEW s \in Slots, ChangeDone(s) PROVE TypeOK'
  BY <1>11 DEF ChangeDone
<1>12. ASSUME NEW s \in Slots, ChangeFailed(s) PROVE TypeOK'
  BY <1>12 DEF ChangeFailed, Answered
<1>13. ASSUME NEW s \in Slots, KeyDone(s) PROVE TypeOK'
  BY <1>13 DEF KeyDone, Answered, RequestsMeant
<1>14. ASSUME NEW s \in Slots, KeyFailed(s) PROVE TypeOK'
  BY <1>14 DEF KeyFailed, Answered
<1>15. ASSUME NEW s \in Slots, Unheard(s) PROVE TypeOK'
  BY <1>15 DEF Unheard
<1>16. ASSUME NEW s \in Slots, RequestFails(s) PROVE TypeOK'
  BY <1>16 DEF RequestFails, Refuse
<1>17. ASSUME NEW s \in Slots, SessionEffect(s) PROVE TypeOK'
  BY <1>17 DEF SessionEffect, Send
<1>18. ASSUME NEW s \in Slots, TimerRefresh(s) PROVE TypeOK'
  BY <1>18 DEF TimerRefresh, Send
<1>19. ASSUME NEW s \in Slots, Login(s) PROVE TypeOK'
  <2>1. Request("login", None) \in Requests
    BY <1>19 DEF Login
  <2>2. req' \in [Slots -> Requests]
    BY <1>19, <2>1 DEF Login, Send
  <2>3. clicks' \in Nat /\ faults' \in Nat
    BY <1>19 DEF Login, Click
  <2>4. QED
    BY <1>19, <2>2, <2>3 DEF Login
<1>20. ASSUME NEW s \in Slots, RefreshButton(s) PROVE TypeOK'
  BY <1>20 DEF RefreshButton, Send, Click
<1>21. ASSUME NEW s \in Slots, SavePolicy(s) PROVE TypeOK'
  <2>1. [Request("save", token) EXCEPT !.policy = text] \in Requests
    BY <1>21 DEF SavePolicy
  <2>2. req' \in [Slots -> Requests]
    BY <1>21, <2>1 DEF SavePolicy, Send
  <2>3. clicks' \in Nat /\ faults' \in Nat
    BY <1>21 DEF SavePolicy, Click
  <2>4. QED
    BY <1>21, <2>2, <2>3 DEF SavePolicy
<1>22. ASSUME NEW s \in Slots, GenerateKey(s) PROVE TypeOK'
  BY <1>22 DEF GenerateKey, Send, Click
<1>23. ASSUME NEW s \in Slots, NEW d \in Devices \cup {None},
              NEW lock \in BOOLEAN, SendCommand(s, d, lock)
       PROVE  TypeOK'
  <2>1. [Request("command", token) EXCEPT !.target = d, !.lock = lock] \in Requests
    <3>1. Request("command", token) \in Requests
      OBVIOUS
    <3>2. \A r \in Requests :
             [r EXCEPT !.target = d, !.lock = lock] \in Requests
      OBVIOUS
    <3>3. QED
      BY <3>1, <3>2
  <2>2. req' \in [Slots -> Requests]
    BY <1>23, <2>1 DEF SendCommand, Send
  <2>3. clicks' \in Nat /\ faults' \in Nat
    BY <1>23 DEF SendCommand, Click
  <2>4. QED
    BY <1>23, <2>2, <2>3 DEF SendCommand
<1>24. ASSUME NEW x \in Policies \cup {Junk}, EditPolicy(x) PROVE TypeOK'
  BY <1>24 DEF EditPolicy, Click
<1>25. ASSUME NEW d \in Devices, SelectDevice(d) PROVE TypeOK'
  BY <1>25 DEF SelectDevice, Click
<1>26. ASSUME Logout PROVE TypeOK'
  <2>1. req' \in [Slots -> Requests]
    BY <1>26, DeafKeeps DEF Logout
  <2>2. clicks' \in Nat /\ faults' \in Nat
    BY <1>26 DEF Logout, Click
  <2>3. QED
    BY <1>26, <2>1, <2>2 DEF Logout
<1>27. ASSUME Reload PROVE TypeOK'
  <2>1. req' \in [Slots -> Requests]
    BY <1>27, DeafKeeps DEF Reload
  <2>2. clicks' \in Nat /\ faults' \in Nat
    BY <1>27 DEF Reload, Click
  <2>3. QED
    BY <1>27, <2>1, <2>2 DEF Reload
<1>28. ASSUME Others PROVE TypeOK'
  BY <1>28 DEF Others, Click
<1>29. ASSUME NEW t \in Sessions, Expire(t) PROVE TypeOK'
  BY <1>29 DEF Expire
<1>30. ASSUME UNCHANGED vars PROVE TypeOK'
  BY <1>30 DEF vars

<1>31. QED
  BY <1>1, <1>2, <1>3, <1>4, <1>5, <1>6, <1>7, <1>8, <1>9, <1>10, <1>11,
     <1>12, <1>13, <1>14, <1>15, <1>16, <1>17, <1>18, <1>19, <1>20, <1>21,
     <1>22, <1>23, <1>24, <1>25, <1>26, <1>27, <1>28, <1>29, <1>30
  DEF Next, Serve, Arrive

\* A step keeps what requests carry: a key that was created stays that of the
\* session that asked.
LEMMA MeantStep == TypeOK /\ RequestsMeant /\ [Next]_vars => RequestsMeant'
<1> SUFFICES ASSUME TypeOK, RequestsMeant, [Next]_vars PROVE RequestsMeant'
  OBVIOUS
<1> USE SpecialValues, RequestTypes
    DEF RequestsMeant, TypeOK, Requests, server, page, NoClick
<1>1. ASSUME NEW s \in Slots, ServeLogin(s) PROVE RequestsMeant'
  BY <1>1 DEF ServeLogin, Serving, Refuse
<1>2. ASSUME NEW s \in Slots, ServeDevices(s) PROVE RequestsMeant'
  BY <1>2 DEF ServeDevices, Serving, Refuse, Authorized
<1>3. ASSUME NEW s \in Slots, ServePolicy(s) PROVE RequestsMeant'
  BY <1>3 DEF ServePolicy, Serving, Refuse, Authorized
<1>4. ASSUME NEW s \in Slots, ServeSave(s) PROVE RequestsMeant'
  BY <1>4 DEF ServeSave, Serving, Refuse, Authorized
<1>5. ASSUME NEW s \in Slots, ServeCommand(s) PROVE RequestsMeant'
  BY <1>5 DEF ServeCommand, Serving, Refuse, Authorized
<1>6. ASSUME NEW s \in Slots, ServeKey(s) PROVE RequestsMeant'
  BY <1>6 DEF ServeKey, Serving, Refuse, Authorized
<1>7. ASSUME NEW s \in Slots, RefreshDone(s) PROVE RequestsMeant'
  BY <1>7 DEF RefreshDone, Answered
<1>8. ASSUME NEW s \in Slots, RefreshFailed(s) PROVE RequestsMeant'
  BY <1>8 DEF RefreshFailed, Answered
<1>9. ASSUME NEW s \in Slots, LoginDone(s) PROVE RequestsMeant'
  BY <1>9 DEF LoginDone, Answered
<1>10. ASSUME NEW s \in Slots, LoginFailed(s) PROVE RequestsMeant'
  BY <1>10 DEF LoginFailed, Answered
<1>11. ASSUME NEW s \in Slots, ChangeDone(s) PROVE RequestsMeant'
  BY <1>11 DEF ChangeDone
<1>12. ASSUME NEW s \in Slots, ChangeFailed(s) PROVE RequestsMeant'
  BY <1>12 DEF ChangeFailed, Answered
<1>13. ASSUME NEW s \in Slots, KeyDone(s) PROVE RequestsMeant'
  BY <1>13 DEF KeyDone, Answered
<1>14. ASSUME NEW s \in Slots, KeyFailed(s) PROVE RequestsMeant'
  BY <1>14 DEF KeyFailed, Answered
<1>15. ASSUME NEW s \in Slots, Unheard(s) PROVE RequestsMeant'
  BY <1>15 DEF Unheard
<1>16. ASSUME NEW s \in Slots, RequestFails(s) PROVE RequestsMeant'
  BY <1>16 DEF RequestFails, Refuse
<1>17. ASSUME NEW s \in Slots, SessionEffect(s) PROVE RequestsMeant'
  BY <1>17 DEF SessionEffect, Send
<1>18. ASSUME NEW s \in Slots, TimerRefresh(s) PROVE RequestsMeant'
  BY <1>18 DEF TimerRefresh, Send
<1>19. ASSUME NEW s \in Slots, Login(s) PROVE RequestsMeant'
  BY <1>19 DEF Login, Send, Click
<1>20. ASSUME NEW s \in Slots, RefreshButton(s) PROVE RequestsMeant'
  BY <1>20 DEF RefreshButton, Send, Click
<1>21. ASSUME NEW s \in Slots, SavePolicy(s) PROVE RequestsMeant'
  <2>1. /\ [Request("save", token) EXCEPT !.policy = text].kind = "save"
        /\ [Request("save", token) EXCEPT !.policy = text].policy = text
    BY ChangeKinds
  <2>2. text \in Policies
    BY <1>21 DEF SavePolicy
  <2>3. QED
    BY <1>21, <2>1, <2>2
    DEF SavePolicy, Click, Send
<1>22. ASSUME NEW s \in Slots, GenerateKey(s) PROVE RequestsMeant'
  BY <1>22 DEF GenerateKey, Send, Click
<1>23. ASSUME NEW s \in Slots, NEW d \in Devices \cup {None},
              NEW lock \in BOOLEAN, SendCommand(s, d, lock)
       PROVE  RequestsMeant'
  <2>1. [Request("command", token) EXCEPT !.target = d, !.lock = lock].kind = "command"
    BY ChangeKinds
  <2>2. QED
    BY <1>23, <2>1
    DEF SendCommand, Click, Send
<1>24. ASSUME NEW x \in Policies \cup {Junk}, EditPolicy(x)
       PROVE  RequestsMeant'
  BY <1>24 DEF EditPolicy, Click
<1>25. ASSUME NEW d \in Devices, SelectDevice(d) PROVE RequestsMeant'
  BY <1>25 DEF SelectDevice, Click
<1>26. ASSUME Logout PROVE RequestsMeant'
  BY <1>26, DeafKeeps DEF Logout, Click
<1>27. ASSUME Reload PROVE RequestsMeant'
  BY <1>27, DeafKeeps DEF Reload, Click
<1>28. ASSUME Others PROVE RequestsMeant'
  BY <1>28 DEF Others, Click
<1>29. ASSUME NEW t \in Sessions, Expire(t) PROVE RequestsMeant'
  BY <1>29 DEF Expire
<1>30. ASSUME UNCHANGED vars PROVE RequestsMeant'
  BY <1>30 DEF vars

<1>31. QED
  BY <1>1, <1>2, <1>3, <1>4, <1>5, <1>6, <1>7, <1>8, <1>9, <1>10, <1>11,
     <1>12, <1>13, <1>14, <1>15, <1>16, <1>17, <1>18, <1>19, <1>20, <1>21,
     <1>22, <1>23, <1>24, <1>25, <1>26, <1>27, <1>28, <1>29, <1>30
  DEF Next, Serve, Arrive

\* A step keeps the key on the screen that of the session: the session changes
\* only where nobody waits for a key.
LEMMA PanelStep ==
  TypeOK /\ RequestsMeant /\ PanelInv /\ LoginInv /\ [Next]_vars => PanelInv'
<1> SUFFICES ASSUME TypeOK, RequestsMeant, PanelInv, LoginInv, [Next]_vars
             PROVE  PanelInv'
  OBVIOUS
<1> USE SpecialValues, RequestTypes
    DEF PanelInv, KeyOfSession, TypeOK, Requests, server, page, NoClick
<1>1. ASSUME NEW s \in Slots, ServeLogin(s) PROVE PanelInv'
  BY <1>1 DEF ServeLogin, Serving, Refuse
<1>2. ASSUME NEW s \in Slots, ServeDevices(s) PROVE PanelInv'
  BY <1>2 DEF ServeDevices, Serving, Refuse, Authorized
<1>3. ASSUME NEW s \in Slots, ServePolicy(s) PROVE PanelInv'
  BY <1>3 DEF ServePolicy, Serving, Refuse, Authorized
<1>4. ASSUME NEW s \in Slots, ServeSave(s) PROVE PanelInv'
  BY <1>4 DEF ServeSave, Serving, Refuse, Authorized
<1>5. ASSUME NEW s \in Slots, ServeCommand(s) PROVE PanelInv'
  BY <1>5 DEF ServeCommand, Serving, Refuse, Authorized
<1>6. ASSUME NEW s \in Slots, ServeKey(s) PROVE PanelInv'
  BY <1>6 DEF ServeKey, Serving, Refuse, Authorized
<1>7. ASSUME NEW s \in Slots, RefreshDone(s) PROVE PanelInv'
  BY <1>7 DEF RefreshDone, Answered
<1>8. ASSUME NEW s \in Slots, RefreshFailed(s) PROVE PanelInv'
  BY <1>8 DEF RefreshFailed, Answered
<1>9. ASSUME NEW s \in Slots, LoginDone(s) PROVE PanelInv'
  <2>1. token = None /\ key = None
    BY <1>9 DEF LoginInv, LoginDone, Answered
  <2>2. \A r \in Slots : ~(req[r].kind = "key" /\ req[r].live)
    BY <2>1 DEF RequestsMeant
  <2>3. \A r \in Slots : req'[r] = req[r] \/ req'[r] = NoRequest
    BY <1>9 DEF LoginDone, Answered
  <2>4. QED
    BY <1>9, <2>1, <2>2, <2>3 DEF LoginDone
<1>10. ASSUME NEW s \in Slots, LoginFailed(s) PROVE PanelInv'
  BY <1>10 DEF LoginFailed, Answered
<1>11. ASSUME NEW s \in Slots, ChangeDone(s) PROVE PanelInv'
  BY <1>11 DEF ChangeDone
<1>12. ASSUME NEW s \in Slots, ChangeFailed(s) PROVE PanelInv'
  BY <1>12 DEF ChangeFailed, Answered
<1>13. ASSUME NEW s \in Slots, KeyDone(s) PROVE PanelInv'
  <2>1. /\ key' = req[s].got /\ req[s].got \in Keys
        /\ asked[req[s].got] = token /\ token \in Sessions
    BY <1>13 DEF RequestsMeant, KeyDone, Answered
  <2>2. \A r \in Slots : req'[r] = req[r] \/ req'[r] = NoRequest
    BY <1>13 DEF KeyDone, Answered
  <2>3. QED
    BY <1>13, <2>1, <2>2 DEF KeyDone
<1>14. ASSUME NEW s \in Slots, KeyFailed(s) PROVE PanelInv'
  BY <1>14 DEF KeyFailed, Answered
<1>15. ASSUME NEW s \in Slots, Unheard(s) PROVE PanelInv'
  BY <1>15 DEF Unheard
<1>16. ASSUME NEW s \in Slots, RequestFails(s) PROVE PanelInv'
  BY <1>16 DEF RequestFails, Refuse
<1>17. ASSUME NEW s \in Slots, SessionEffect(s) PROVE PanelInv'
  BY <1>17 DEF SessionEffect, Send
<1>18. ASSUME NEW s \in Slots, TimerRefresh(s) PROVE PanelInv'
  BY <1>18 DEF TimerRefresh, Send
<1>19. ASSUME NEW s \in Slots, Login(s) PROVE PanelInv'
  BY <1>19 DEF Login, Send, Click
<1>20. ASSUME NEW s \in Slots, RefreshButton(s) PROVE PanelInv'
  BY <1>20 DEF RefreshButton, Send, Click
<1>21. ASSUME NEW s \in Slots, SavePolicy(s) PROVE PanelInv'
  <2>1. [Request("save", token) EXCEPT !.policy = text].kind \notin {"login", "key"}
    BY ChangeKinds
  <2>2. QED
    BY <1>21, <2>1 DEF SavePolicy, Click, Send
<1>22. ASSUME NEW s \in Slots, GenerateKey(s) PROVE PanelInv'
  BY <1>22 DEF GenerateKey, Send, Click
<1>23. ASSUME NEW s \in Slots, NEW d \in Devices \cup {None},
              NEW lock \in BOOLEAN, SendCommand(s, d, lock)
       PROVE  PanelInv'
  <2>1. [Request("command", token) EXCEPT !.target = d, !.lock = lock].kind \notin {"login", "key"}
    BY ChangeKinds
  <2>2. QED
    BY <1>23, <2>1 DEF SendCommand, Click, Send
<1>24. ASSUME NEW x \in Policies \cup {Junk}, EditPolicy(x) PROVE PanelInv'
  BY <1>24 DEF EditPolicy, Click
<1>25. ASSUME NEW d \in Devices, SelectDevice(d) PROVE PanelInv'
  BY <1>25 DEF SelectDevice, Click
<1>26. ASSUME Logout PROVE PanelInv'
  BY <1>26, DeafKeeps DEF Logout, Click
<1>27. ASSUME Reload PROVE PanelInv'
  BY <1>27, DeafKeeps DEF Reload, Click
<1>28. ASSUME Others PROVE PanelInv'
  BY <1>28 DEF Others, Click
<1>29. ASSUME NEW t \in Sessions, Expire(t) PROVE PanelInv'
  BY <1>29 DEF Expire
<1>30. ASSUME UNCHANGED vars PROVE PanelInv'
  BY <1>30 DEF vars

<1>31. QED
  BY <1>1, <1>2, <1>3, <1>4, <1>5, <1>6, <1>7, <1>8, <1>9, <1>10, <1>11,
     <1>12, <1>13, <1>14, <1>15, <1>16, <1>17, <1>18, <1>19, <1>20, <1>21,
     <1>22, <1>23, <1>24, <1>25, <1>26, <1>27, <1>28, <1>29, <1>30
  DEF Next, Serve, Arrive

\* A step keeps logins apart: the form that waits sends no other.
LEMMA LoginStep == TypeOK /\ LoginInv /\ [Next]_vars => LoginInv'
<1> SUFFICES ASSUME TypeOK, LoginInv, [Next]_vars PROVE LoginInv'
  OBVIOUS
<1> USE SpecialValues, RequestTypes
    DEF LoginInv, TypeOK, Requests, server, page, NoClick
<1>1. ASSUME NEW s \in Slots, ServeLogin(s) PROVE LoginInv'
  BY <1>1 DEF ServeLogin, Serving, Refuse
<1>2. ASSUME NEW s \in Slots, ServeDevices(s) PROVE LoginInv'
  BY <1>2 DEF ServeDevices, Serving, Refuse, Authorized
<1>3. ASSUME NEW s \in Slots, ServePolicy(s) PROVE LoginInv'
  BY <1>3 DEF ServePolicy, Serving, Refuse, Authorized
<1>4. ASSUME NEW s \in Slots, ServeSave(s) PROVE LoginInv'
  BY <1>4 DEF ServeSave, Serving, Refuse, Authorized
<1>5. ASSUME NEW s \in Slots, ServeCommand(s) PROVE LoginInv'
  BY <1>5 DEF ServeCommand, Serving, Refuse, Authorized
<1>6. ASSUME NEW s \in Slots, ServeKey(s) PROVE LoginInv'
  BY <1>6 DEF ServeKey, Serving, Refuse, Authorized
<1>7. ASSUME NEW s \in Slots, RefreshDone(s) PROVE LoginInv'
  BY <1>7 DEF RefreshDone, Answered
<1>8. ASSUME NEW s \in Slots, RefreshFailed(s) PROVE LoginInv'
  BY <1>8 DEF RefreshFailed, Answered
<1>9. ASSUME NEW s \in Slots, LoginDone(s) PROVE LoginInv'
  BY <1>9 DEF LoginDone, Answered
<1>10. ASSUME NEW s \in Slots, LoginFailed(s) PROVE LoginInv'
  BY <1>10 DEF LoginFailed, Answered
<1>11. ASSUME NEW s \in Slots, ChangeDone(s) PROVE LoginInv'
  BY <1>11 DEF ChangeDone
<1>12. ASSUME NEW s \in Slots, ChangeFailed(s) PROVE LoginInv'
  BY <1>12 DEF ChangeFailed, Answered
<1>13. ASSUME NEW s \in Slots, KeyDone(s) PROVE LoginInv'
  BY <1>13 DEF KeyDone, Answered
<1>14. ASSUME NEW s \in Slots, KeyFailed(s) PROVE LoginInv'
  BY <1>14 DEF KeyFailed, Answered
<1>15. ASSUME NEW s \in Slots, Unheard(s) PROVE LoginInv'
  BY <1>15 DEF Unheard
<1>16. ASSUME NEW s \in Slots, RequestFails(s) PROVE LoginInv'
  BY <1>16 DEF RequestFails, Refuse
<1>17. ASSUME NEW s \in Slots, SessionEffect(s) PROVE LoginInv'
  BY <1>17 DEF SessionEffect, Send
<1>18. ASSUME NEW s \in Slots, TimerRefresh(s) PROVE LoginInv'
  BY <1>18 DEF TimerRefresh, Send
<1>19. ASSUME NEW s \in Slots, Login(s) PROVE LoginInv'
  BY <1>19 DEF Login, Send, Click
<1>20. ASSUME NEW s \in Slots, RefreshButton(s) PROVE LoginInv'
  BY <1>20 DEF RefreshButton, Send, Click
<1>21. ASSUME NEW s \in Slots, SavePolicy(s) PROVE LoginInv'
  <2>1. [Request("save", token) EXCEPT !.policy = text].kind \notin {"login", "key"}
    BY ChangeKinds
  <2>2. QED
    BY <1>21, <2>1 DEF SavePolicy, Click, Send
<1>22. ASSUME NEW s \in Slots, GenerateKey(s) PROVE LoginInv'
  BY <1>22 DEF GenerateKey, Send, Click
<1>23. ASSUME NEW s \in Slots, NEW d \in Devices \cup {None},
              NEW lock \in BOOLEAN, SendCommand(s, d, lock)
       PROVE  LoginInv'
  <2>1. [Request("command", token) EXCEPT !.target = d, !.lock = lock].kind \notin {"login", "key"}
    BY ChangeKinds
  <2>2. QED
    BY <1>23, <2>1 DEF SendCommand, Click, Send
<1>24. ASSUME NEW x \in Policies \cup {Junk}, EditPolicy(x) PROVE LoginInv'
  BY <1>24 DEF EditPolicy, Click
<1>25. ASSUME NEW d \in Devices, SelectDevice(d) PROVE LoginInv'
  BY <1>25 DEF SelectDevice, Click
<1>26. ASSUME Logout PROVE LoginInv'
  BY <1>26, DeafKeeps DEF Logout, Click
<1>27. ASSUME Reload PROVE LoginInv'
  BY <1>27, DeafKeeps DEF Reload, Click
<1>28. ASSUME Others PROVE LoginInv'
  BY <1>28 DEF Others, Click
<1>29. ASSUME NEW t \in Sessions, Expire(t) PROVE LoginInv'
  BY <1>29 DEF Expire
<1>30. ASSUME UNCHANGED vars PROVE LoginInv'
  BY <1>30 DEF vars

<1>31. QED
  BY <1>1, <1>2, <1>3, <1>4, <1>5, <1>6, <1>7, <1>8, <1>9, <1>10, <1>11,
     <1>12, <1>13, <1>14, <1>15, <1>16, <1>17, <1>18, <1>19, <1>20, <1>21,
     <1>22, <1>23, <1>24, <1>25, <1>26, <1>27, <1>28, <1>29, <1>30
  DEF Next, Serve, Arrive

-----------------------------------------------------------------------------
\* The invariant holds in the beginning and is kept by every step.
LEMMA Invariant == Spec => []IInv
<1>1. Init => IInv
  <2> SUFFICES ASSUME Init PROVE IInv
    OBVIOUS
  <2> USE SpecialValues, RequestTypes
  <2>1. TypeOK
    <3>1. policy \in Policies
      BY ConsoleAssumption DEF Init
    <3>2. stored \in Sessions \cup {None}
      BY ConsoleAssumption DEF Init
    <3>3. locked \in Tables /\ session \in [Sessions -> {"unused", "valid", "expired"}]
      BY DEF Init, Tables
    <3>4. asked \in [Keys -> Sessions \cup {None}] /\ req \in [Slots -> Requests]
      BY DEF Init
    <3>5. clicks \in Nat /\ faults \in Nat
      BY ConsoleAssumption DEF Init
    <3>6. QED
      BY <3>1, <3>2, <3>3, <3>4, <3>5 DEF Init, TypeOK
  <2>2. \A s \in Slots : req[s].kind = "none"
    BY DEF Init
  <2>3. RequestsMeant /\ LoginInv
    BY <2>2 DEF RequestsMeant, LoginInv
  <2>4. PanelInv
    BY <2>2 DEF PanelInv, KeyOfSession, Init
  <2>5. QED
    BY <2>1, <2>3, <2>4 DEF IInv
<1>2. IInv /\ [Next]_vars => IInv'
  BY TypeStep, MeantStep, PanelStep, LoginStep DEF IInv
<1>3. QED
  BY <1>1, <1>2, PTL DEF Spec

\* Every state of the page and of the server has its types: a text that is no
\* JSON is never stored, and what is shown comes from the server.
THEOREM TypeCorrect == Spec => []TypeOK
BY Invariant, PTL DEF IInv

\* The enrollment key on the screen is one the present session asked for:
\* logouts, logins, reloads and late answers never leave another there.
THEOREM KeysAreOfTheSession == Spec => []KeyOfSession
BY Invariant, PTL DEF IInv, PanelInv

-----------------------------------------------------------------------------
(***************************************************************************)
(* A page that shows what the server has keeps showing it until somebody   *)
(* does something: the halves of a refresh are read from the tables as     *)
(* they are, and every new refresh begins with nothing.                    *)
(***************************************************************************)

\* Request q brings nothing but what the tables hold, and changes nothing.
Calm(q) ==
    /\ q.kind = "refresh" => q.policy \in {policy, None} /\ q.devices \in {locked, None}
    /\ q.kind \in {"save", "command"} => q.at # "sent"

\* A new refresh, and none, are calm.
LEMMA CalmRequests ==
  /\ NoRequest.kind = "none"
  /\ \A t : /\ Request("refresh", t).kind = "refresh"
            /\ Request("refresh", t).policy = None
            /\ Request("refresh", t).devices = None
BY DEF NoRequest, Request

\* A step of one request that leaves the page and the tables current.
LEMMA CalmStep ==
  ASSUME Current, NEW s \in Slots, UNCHANGED <<policy, locked>>,
         text' = policy, shown' = locked,
         \A o \in Slots : o # s => req'[o] = req[o],
         Calm(req'[s])
  PROVE  Current'
BY DEF Current, Calm

\* A current page is still current after a step that is nobody's action.
LEMMA CurrentStep ==
  ASSUME TypeOK, Current, [Next]_vars, clicks' = clicks
  PROVE  Current'
<1> USE CalmRequests DEF NoClick
<1>0. /\ text = policy /\ shown = locked
      /\ \A s \in Slots : Calm(req[s])
      /\ req \in [Slots -> Requests] /\ clicks \in Nat
  BY DEF Current, Calm, TypeOK
<1> DEFINE Ours == /\ UNCHANGED <<policy, locked>>
                   /\ text' = policy /\ shown' = locked
           Slot(s) == \A o \in Slots : o # s => req'[o] = req[o]
<1>1. ASSUME NEW s \in Slots, ServeLogin(s) \/ ServeKey(s) \/ RequestFails(s)
      PROVE  Current'
  <2>1. Ours /\ Slot(s)
    BY <1>0, <1>1 DEF ServeLogin, ServeKey, RequestFails, Refuse, page, server
  <2>2. /\ req'[s].kind = req[s].kind /\ req'[s].at # "sent"
        /\ req'[s].policy = req[s].policy /\ req'[s].devices = req[s].devices
    BY <1>0, <1>1 DEF ServeLogin, ServeKey, RequestFails, Refuse, Requests
  <2>3. Calm(req'[s])
    BY <1>0, <2>2 DEF Calm
  <2>4. QED
    BY <2>1, <2>3, CalmStep
<1>2. ASSUME NEW s \in Slots, ServeDevices(s) \/ ServePolicy(s) PROVE Current'
  <2>1. Ours /\ Slot(s)
    BY <1>0, <1>2 DEF ServeDevices, ServePolicy, Refuse, page, server
  <2>2. /\ req'[s].kind = "refresh"
        /\ req'[s].policy \in {req[s].policy, policy}
        /\ req'[s].devices \in {req[s].devices, locked}
        /\ req[s].kind = "refresh"
    BY <1>0, <1>2 DEF ServeDevices, ServePolicy, Serving, Refuse, Requests
  <2>3. Calm(req'[s])
    BY <1>0, <2>2 DEF Calm
  <2>4. QED
    BY <2>1, <2>3, CalmStep
<1>3. ASSUME NEW s \in Slots PROVE ~ServeSave(s) /\ ~ServeCommand(s)
  BY <1>0 DEF ServeSave, ServeCommand, Serving, Calm
<1>4. ASSUME NEW s \in Slots, Arrive(s) PROVE Current'
  <2>1. Slot(s) /\ UNCHANGED <<policy, locked>>
    BY <1>0, <1>4 DEF Arrive, RefreshDone, RefreshFailed, LoginDone, LoginFailed,
       ChangeDone, ChangeFailed, KeyDone, KeyFailed, Unheard, Answered, server
  <2>2. text' = policy /\ shown' = locked
    <3>1. CASE RefreshDone(s)
      BY <1>0, <3>1 DEF RefreshDone, Answered, Calm
    <3>2. CASE UNCHANGED <<text, shown>>
      BY <1>0, <3>2
    <3>3. QED
      BY <1>4, <3>1, <3>2 DEF Arrive, RefreshFailed, LoginDone, LoginFailed,
         ChangeDone, ChangeFailed, KeyDone, KeyFailed, Unheard, Answered, page
  <2>3. Calm(req'[s])
    <3>1. req'[s] = NoRequest \/ req'[s] = Request("refresh", req[s].token)
      BY <1>0, <1>4 DEF Arrive, RefreshDone, RefreshFailed, LoginDone, LoginFailed,
         ChangeDone, ChangeFailed, KeyDone, KeyFailed, Unheard, Answered
    <3>2. QED
      BY <3>1 DEF Calm
  <2>4. QED
    BY <2>1, <2>2, <2>3, CalmStep
<1>5. ASSUME NEW s \in Slots, SessionEffect(s) \/ TimerRefresh(s) PROVE Current'
  <2>1. Ours /\ Slot(s)
    BY <1>0, <1>5 DEF SessionEffect, TimerRefresh, Send, page, server
  <2>2. req'[s] = req[s] \/ \E t : req'[s] = Request("refresh", t)
    BY <1>0, <1>5 DEF SessionEffect, TimerRefresh, Send
  <2>3. Calm(req'[s])
    BY <1>0, <2>2 DEF Calm
  <2>4. QED
    BY <2>1, <2>3, CalmStep
<1>6. CASE UNCHANGED vars \/ \E t \in Sessions : Expire(t)
  BY <1>6 DEF Current, vars, server, page, Expire
<1>7. ~Click
  BY <1>0 DEF Click
<1>8. QED
  BY <1>1, <1>2, <1>3, <1>4, <1>5, <1>6, <1>7
  DEF Next, Serve, Login, RefreshButton, EditPolicy, SavePolicy, SelectDevice,
      SendCommand, GenerateKey, Logout, Reload, Others

\* No answer, failure, login or expiry brings an older list or policy back to
\* a page that has the present ones.
THEOREM CurrentPagesStay == Spec => StaysCurrent
<1>1. TypeOK /\ [Next]_vars => [Current /\ clicks' = clicks => Current']_vars
  BY CurrentStep
<1>2. QED
  BY <1>1, TypeCorrect, PTL DEF Spec, StaysCurrent
=============================================================================
