---------------------------- MODULE AdminConsole ----------------------------
(***************************************************************************)
(* A page of the administrators' dashboard (dashboard/src/app/page.tsx,    *)
(* components/EnrollPanel.tsx, lib/api.ts) and the handlers it calls       *)
(* (server/src/index.ts), with the sessions of server/src/crypto.ts.       *)
(*                                                                         *)
(* Requests overlap: each is served, and answered, when its turn comes, so *)
(* an answer may arrive after a newer one, after a logout or after the     *)
(* session has expired.  Other pages and scripts are represented by what   *)
(* they change on the server.                                              *)
(*                                                                         *)
(* Abstractions.  A policy is a value; the fields of a device are its lock *)
(* flag.  A text that is no JSON is Junk, that of a fresh page too.  The   *)
(* copy buttons and the errors inside the enrollment panel are left out.   *)
(***************************************************************************)
EXTENDS Naturals

CONSTANTS
    Devices,
    Policies,
    Sessions,   \* the tokens logins may obtain
    Keys,       \* the enrollment keys the server may create
    Slots,      \* requests of the page at the same time (a bound)
    Junk, None,
    MaxFaults,  \* failed requests (a bound)
    MaxClicks   \* what the administrators do (a bound)

ASSUME ConsoleAssumption ==
    /\ None \notin Policies \cup Devices \cup Sessions \cup Keys \cup [Devices -> BOOLEAN]
    /\ Junk \notin Policies
    /\ Policies # {} /\ Sessions # {}
    /\ MaxFaults \in Nat /\ MaxClicks \in Nat

VARIABLES
    policy,     \* the global policy of the server
    locked,     \* the lock flags of its devices
    session,    \* the tokens: "unused", "valid" or "expired"
    asked,      \* the session that asked for each enrollment key (history)
    req,        \* the requests of the page
    token,      \* the session of the page
    stored,     \* pallet_admin_token in the browser's localStorage
    timer,      \* the session the 15 s interval refreshes with
    text,       \* the policy editor
    shown,      \* the list of devices
    selected,
    error,      \* a message is shown
    loading,    \* the login form waits
    key,        \* the key in the enrollment panel
    asking,     \* that panel waits
    clicks, faults

server == <<policy, locked, session, asked>>
page   == <<token, stored, timer, text, shown, selected, error, loading,
            key, asking>>
vars   == <<server, req, page, clicks, faults>>

-----------------------------------------------------------------------------
Tables == [Devices -> BOOLEAN]

\* "live": the component that waits for the answer is still there.
Requests ==
    [kind : {"none", "refresh", "login", "save", "command", "key"},
     at : {"sent", "ok", "failed"}, live : BOOLEAN,
     token : Sessions \cup {None}, policy : Policies \cup {None},
     devices : Tables \cup {None}, target : Devices \cup {None},
     lock : BOOLEAN, got : Sessions \cup Keys \cup {None}]
NoRequest ==
    [kind |-> "none", at |-> "sent", live |-> FALSE, token |-> None,
     policy |-> None, devices |-> None, target |-> None, lock |-> FALSE,
     got |-> None]
Request(kind, t) ==
    [NoRequest EXCEPT !.kind = kind, !.live = TRUE, !.token = t]

\* The variables of the page and of the server have the types the code gives
\* them: policies, tokens, keys and lists stay in their places.
TypeOK ==
    /\ policy  \in Policies
    /\ locked  \in Tables
    /\ session \in [Sessions -> {"unused", "valid", "expired"}]
    /\ asked   \in [Keys -> Sessions \cup {None}]
    /\ req     \in [Slots -> Requests]
    /\ token   \in Sessions \cup {None}
    /\ stored  \in Sessions \cup {None}
    /\ timer   \in Sessions \cup {None}
    /\ text    \in Policies \cup {Junk}
    /\ shown   \in Tables \cup {None}
    /\ selected \in Devices \cup {None}
    /\ error   \in BOOLEAN /\ loading \in BOOLEAN
    /\ key     \in Keys \cup {None}
    /\ asking  \in BOOLEAN
    /\ clicks  \in Nat /\ faults \in Nat

\* The page is opened, perhaps with the session of an earlier visit.
Init ==
    /\ policy = CHOOSE p \in Policies : TRUE
    /\ locked = [d \in Devices |-> FALSE]
    /\ stored \in {None, CHOOSE t \in Sessions : TRUE}
    /\ session = [t \in Sessions |-> IF t = stored THEN "valid" ELSE "unused"]
    /\ asked = [k \in Keys |-> None]
    /\ req = [s \in Slots |-> NoRequest]
    /\ token = stored /\ timer = None
    /\ text = Junk /\ shown = None /\ selected = None
    /\ error = FALSE /\ loading = FALSE
    /\ key = None /\ asking = FALSE
    /\ clicks = MaxClicks /\ faults = MaxFaults

\* An administrator does something.
Click == clicks > 0 /\ clicks' = clicks - 1 /\ UNCHANGED faults
NoClick == UNCHANGED <<clicks, faults>>

-----------------------------------------------------------------------------
(* The server.                                                             *)

\* requireAdmin.
Authorized(s) == session[req[s].token] = "valid"

Serving(s, kinds) == req[s].kind \in kinds /\ req[s].at = "sent"
Refuse(s) == req' = [req EXCEPT ![s].at = "failed"]

\* POST /admin/login: a new token, or 401.
ServeLogin(s) ==
    /\ Serving(s, {"login"})
    /\ \/ \E t \in Sessions :
             /\ session[t] = "unused"
             /\ session' = [session EXCEPT ![t] = "valid"]
             /\ req' = [req EXCEPT ![s].at = "ok", ![s].got = t]
       \/ Refuse(s) /\ UNCHANGED session
    /\ UNCHANGED <<policy, locked, asked, page>> /\ NoClick

\* GET /admin/devices and GET /admin/policy: the two halves of a refresh.
ServeDevices(s) ==
    /\ Serving(s, {"refresh"}) /\ req[s].devices = None
    /\ IF Authorized(s) THEN req' = [req EXCEPT ![s].devices = locked]
                        ELSE Refuse(s)
    /\ UNCHANGED <<server, page>> /\ NoClick

ServePolicy(s) ==
    /\ Serving(s, {"refresh"}) /\ req[s].policy = None
    /\ IF Authorized(s) THEN req' = [req EXCEPT ![s].policy = policy]
                        ELSE Refuse(s)
    /\ UNCHANGED <<server, page>> /\ NoClick

\* PUT /admin/policy, as far as this page can see it.
ServeSave(s) ==
    /\ Serving(s, {"save"})
    /\ IF Authorized(s)
       THEN policy' = req[s].policy /\ req' = [req EXCEPT ![s].at = "ok"]
       ELSE Refuse(s) /\ UNCHANGED policy
    /\ UNCHANGED <<locked, session, asked, page>> /\ NoClick

\* POST /admin/devices/:id/commands with lock or unlock, or any other command
\* (no target).
ServeCommand(s) ==
    /\ Serving(s, {"command"})
    /\ IF Authorized(s)
       THEN /\ locked' = [d \in Devices |-> IF d = req[s].target THEN req[s].lock
                                                                 ELSE locked[d]]
            /\ req' = [req EXCEPT ![s].at = "ok"]
       ELSE Refuse(s) /\ UNCHANGED locked
    /\ UNCHANGED <<policy, session, asked, page>> /\ NoClick

\* POST /admin/enrollment-tokens.
ServeKey(s) ==
    /\ Serving(s, {"key"})
    /\ IF Authorized(s)
       THEN \E k \in Keys :
               /\ asked[k] = None
               /\ asked' = [asked EXCEPT ![k] = req[s].token]
               /\ req' = [req EXCEPT ![s].at = "ok", ![s].got = k]
       ELSE Refuse(s) /\ UNCHANGED asked
    /\ UNCHANGED <<policy, locked, session, page>> /\ NoClick

\* 24 hours after its login a token is refused.
Expire(t) ==
    /\ session[t] = "valid"
    /\ session' = [session EXCEPT ![t] = "expired"]
    /\ UNCHANGED <<policy, locked, asked, req, page>> /\ NoClick

\* Somebody else changes the policy or a lock flag.
Others ==
    /\ Click
    /\ \/ policy' \in Policies /\ UNCHANGED locked
       \/ locked' \in Tables /\ UNCHANGED policy
    /\ UNCHANGED <<session, asked, req, page>>

\* fetch rejects: the request, or its answer, is lost.
RequestFails(s) ==
    /\ faults > 0 /\ faults' = faults - 1
    /\ req[s].kind # "none" /\ req[s].at # "failed"
    /\ Refuse(s)
    /\ UNCHANGED <<server, page, clicks>>

-----------------------------------------------------------------------------
(* The page: what arrives.                                                 *)

Answered(s, kinds, at) ==
    /\ req[s].kind \in kinds /\ req[s].live /\ req[s].at = at
    /\ req' = [req EXCEPT ![s] = NoRequest]
    /\ NoClick

\* Both halves of a refresh are there: the list and the editor are replaced,
\* whatever has been typed.
RefreshDone(s) ==
    /\ Answered(s, {"refresh"}, "sent")
    /\ req[s].devices # None /\ req[s].policy # None
    /\ shown' = req[s].devices
    /\ text' = req[s].policy
    /\ error' = FALSE
    /\ UNCHANGED <<server, token, stored, timer, selected, loading, key, asking>>

\* Mutant: a failed refresh is ignored.
RefreshFailed_silent(s) ==
    /\ Answered(s, {"refresh"}, "failed")
    /\ UNCHANGED <<server, page>>

\* One of the halves failed (Promise.all).
RefreshFailed(s) ==
    /\ Answered(s, {"refresh"}, "failed")
    /\ error' = TRUE
    /\ UNCHANGED <<server, token, stored, timer, text, shown, selected, loading,
                   key, asking>>

LoginDone(s) ==
    /\ Answered(s, {"login"}, "ok")
    /\ stored' = req[s].got /\ token' = req[s].got
    /\ loading' = FALSE
    /\ UNCHANGED <<server, timer, text, shown, selected, error, key, asking>>

LoginFailed(s) ==
    /\ Answered(s, {"login"}, "failed")
    /\ error' = TRUE /\ loading' = FALSE
    /\ UNCHANGED <<server, token, stored, timer, text, shown, selected, key,
                   asking>>

\* Mutant: the page takes the policy it saved for the one the server has.
ChangeDone_optimistic(s) ==
    /\ req[s].kind \in {"save", "command"} /\ req[s].live /\ req[s].at = "ok"
    /\ req' = [req EXCEPT ![s] = [Request("refresh", req[s].token)
                                     EXCEPT !.policy = req[s].policy]]
    /\ UNCHANGED <<server, page>> /\ NoClick

\* A save or a command succeeded: the same handler goes on to refresh, with
\* the session it began with.
ChangeDone(s) ==
    /\ req[s].kind \in {"save", "command"} /\ req[s].live /\ req[s].at = "ok"
    /\ req' = [req EXCEPT ![s] = Request("refresh", req[s].token)]
    /\ UNCHANGED <<server, page>> /\ NoClick

\* It failed: nobody catches the error, and nothing is shown.
ChangeFailed(s) ==
    /\ Answered(s, {"save", "command"}, "failed")
    /\ UNCHANGED <<server, page>>

KeyDone(s) ==
    /\ Answered(s, {"key"}, "ok")
    /\ key' = req[s].got /\ asking' = FALSE
    /\ UNCHANGED <<server, token, stored, timer, text, shown, selected, error,
                   loading>>

KeyFailed(s) ==
    /\ Answered(s, {"key"}, "failed")
    /\ asking' = FALSE
    /\ UNCHANGED <<server, token, stored, timer, text, shown, selected, error,
                   loading, key>>

\* An answer nobody waits for.
Unheard(s) ==
    /\ req[s].kind # "none" /\ ~req[s].live
    /\ \/ req[s].at # "sent"
       \/ req[s].devices # None /\ req[s].policy # None
    /\ req' = [req EXCEPT ![s] = NoRequest]
    /\ UNCHANGED <<server, page>> /\ NoClick

-----------------------------------------------------------------------------
(* The page: what it sends.                                                *)

Send(s, r) == req[s].kind = "none" /\ req' = [req EXCEPT ![s] = r]

\* Mutant: the effect returns no clean-up, and a logout leaves the interval.
SessionEffect_leaks(s) ==
    /\ token \notin {timer, None}
    /\ timer' = token
    /\ Send(s, Request("refresh", token))
    /\ UNCHANGED <<server, token, stored, text, shown, selected, error, loading,
                   key, asking>>
    /\ NoClick

\* The effect on the session runs after the page is drawn: it ends the old
\* interval and begins a new one with a refresh.
SessionEffect(s) ==
    /\ token # timer
    /\ timer' = token
    /\ IF token = None THEN UNCHANGED req
                       ELSE Send(s, Request("refresh", token))
    /\ UNCHANGED <<server, token, stored, text, shown, selected, error, loading,
                   key, asking>>
    /\ NoClick

\* Mutant: the list is loaded once, not every 15 seconds.
TimerRefresh_once(s) == FALSE

\* The interval, which refreshes whether or not an earlier answer is there.
TimerRefresh(s) ==
    /\ timer # None
    /\ Send(s, Request("refresh", timer))
    /\ UNCHANGED <<server, page>> /\ NoClick

Login(s) ==
    /\ Click
    /\ token = None /\ ~loading
    /\ Send(s, Request("login", None))
    /\ loading' = TRUE /\ error' = FALSE
    /\ UNCHANGED <<server, token, stored, timer, text, shown, selected, key,
                   asking>>

RefreshButton(s) ==
    /\ Click
    /\ token # None
    /\ Send(s, Request("refresh", token))
    /\ UNCHANGED <<server, page>>

\* Typing in the editor.
EditPolicy(x) ==
    /\ Click
    /\ token # None
    /\ text' = x
    /\ UNCHANGED <<server, req, token, stored, timer, shown, selected, error,
                   loading, key, asking>>

\* Mutant: the text is sent as it is.
SavePolicy_unparsed(s) ==
    /\ Click
    /\ token # None
    /\ Send(s, [Request("save", token) EXCEPT !.policy = text])
    /\ UNCHANGED <<server, page>>

\* savePolicy: a text that is no JSON throws before anything is sent.
SavePolicy(s) ==
    /\ Click
    /\ token # None /\ text # Junk
    /\ Send(s, [Request("save", token) EXCEPT !.policy = text])
    /\ UNCHANGED <<server, page>>

SelectDevice(d) ==
    /\ Click
    /\ token # None /\ shown # None
    /\ selected' = d
    /\ UNCHANGED <<server, req, token, stored, timer, text, shown, error, loading,
                   key, asking>>

\* sendCommand for the selected device (lock, unlock and the rest), or for the
\* whole fleet.
SendCommand(s, d, lock) ==
    /\ Click
    /\ token # None
    /\ d \in {selected, None}
    /\ Send(s, [Request("command", token) EXCEPT !.target = d, !.lock = lock])
    /\ UNCHANGED <<server, page>>

GenerateKey(s) ==
    /\ Click
    /\ token # None /\ ~asking
    /\ Send(s, Request("key", token))
    /\ asking' = TRUE
    /\ UNCHANGED <<server, token, stored, timer, text, shown, selected, error,
                   loading, key>>

\* The requests when the components that wait for kinds are gone.
Deaf(kinds) ==
    [s \in Slots |-> IF req[s].kind \in kinds THEN [req[s] EXCEPT !.live = FALSE]
                                              ELSE req[s]]

\* Mutant: the panel's state outlives the panel.
Logout_keeps ==
    /\ Click
    /\ token # None
    /\ stored' = None /\ token' = None
    /\ UNCHANGED <<server, req, timer, text, shown, selected, error, loading,
                   key, asking>>

\* Logout removes the enrollment panel; the page itself stays, with the list,
\* the editor and the requests it waits for.
Logout ==
    /\ Click
    /\ token # None
    /\ stored' = None /\ token' = None
    /\ req' = Deaf({"key"})
    /\ key' = None /\ asking' = FALSE
    /\ UNCHANGED <<server, timer, text, shown, selected, error, loading>>

\* The page is loaded again and takes its session from localStorage.
Reload ==
    /\ Click
    /\ req' = Deaf({"refresh", "login", "save", "command", "key"})
    /\ token' = stored /\ timer' = None
    /\ text' = Junk /\ shown' = None /\ selected' = None
    /\ error' = FALSE /\ loading' = FALSE /\ key' = None /\ asking' = FALSE
    /\ UNCHANGED <<server, stored>>

-----------------------------------------------------------------------------
Serve(s) == \/ ServeLogin(s) \/ ServeDevices(s) \/ ServePolicy(s)
            \/ ServeSave(s) \/ ServeCommand(s) \/ ServeKey(s)

Arrive(s) == \/ RefreshDone(s) \/ RefreshFailed(s) \/ LoginDone(s)
             \/ LoginFailed(s) \/ ChangeDone(s) \/ ChangeFailed(s)
             \/ KeyDone(s) \/ KeyFailed(s) \/ Unheard(s)

Next ==
    \/ \E s \in Slots :
          \/ Serve(s) \/ Arrive(s) \/ RequestFails(s)
          \/ SessionEffect(s) \/ TimerRefresh(s)
          \/ Login(s) \/ RefreshButton(s) \/ SavePolicy(s) \/ GenerateKey(s)
          \/ \E d \in Devices \cup {None}, lock \in BOOLEAN :
                SendCommand(s, d, lock)
    \/ \E x \in Policies \cup {Junk} : EditPolicy(x)
    \/ \E d \in Devices : SelectDevice(d)
    \/ Logout \/ Reload
    \/ Others
    \/ \E t \in Sessions : Expire(t)

Spec == Init /\ [][Next]_vars

\* Every request is served or fails and its answer arrives, effects run, and
\* the interval goes on as long as the browser shows the page.  Nobody has to
\* click, and no session has to expire.  The effect is strongly fair because the
\* slots it needs are a bound of this model, not of the browser.
Fairness ==
    /\ \A s \in Slots : WF_vars(Serve(s)) /\ WF_vars(Arrive(s))
    /\ SF_vars(\E s \in Slots : SessionEffect(s))
    /\ WF_vars(\E s \in Slots : TimerRefresh(s))

FairSpec == Spec /\ Fairness

-----------------------------------------------------------------------------
(* What the console promises.                                              *)

SignedIn == token # None /\ session[token] = "valid"

\* The enrollment key on the screen is one that the present session asked for:
\* neither a logout nor an answer that comes after it brings the key of the
\* one before.
KeyOfSession == key # None => asked[key] = token /\ token # None

\* Once nobody changes anything, a page that is signed in ends with the list
\* and the policy of the server, for good: answers that were overtaken, were
\* lost or carry an older policy do not last.
Converges == <>[](SignedIn => text = policy /\ shown = locked)

\* The page shows what the server has, and nothing that could change either is
\* under way: no answer is older than the tables, and no change waits.
Current ==
    /\ text = policy /\ shown = locked
    /\ \A s \in Slots :
          /\ req[s].kind = "refresh" => /\ req[s].policy \in {policy, None}
                                       /\ req[s].devices \in {locked, None}
          /\ req[s].kind \in {"save", "command"} => req[s].at # "sent"

\* Such a page stays so until somebody does something: overlapping refreshes,
\* a refresh after each change, failures, logins that end, effects that restart
\* the interval and sessions that expire bring nothing older back.
StaysCurrent == [][Current /\ clicks' = clicks => Current']_vars

\* A session that has expired ends with a message on the screen, for good: an
\* answer from before the expiry may hide it once more, but not the next.
ExpiryIsShown ==
    <>[](token # None /\ session[token] = "expired" => error)

\* After a logout the page comes to rest: what was under way ends, and nothing
\* goes on asking with the old session.
QuietAfterLogout ==
    <>[](token = None => \A s \in Slots : req[s].kind = "none")
=============================================================================
