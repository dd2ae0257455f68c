-------------------------------- MODULE Auth --------------------------------
(***************************************************************************)
(* Authentication of the daemon's HTTP server, src/internal/daemon/auth.go *)
(* and the handlers of server.go that use it: an AuthManager keeps the     *)
(* sessions and the OAuth states of logins under way; saving the           *)
(* configuration puts a new, empty manager in its place.  Handlers read    *)
(* s.auth each time they need it, so that one request may use two          *)
(* managers.                                                               *)
(*                                                                         *)
(* Managers are numbered by the configuration they were made from.         *)
(* A client keeps one session cookie and one OAuth state, the newest.      *)
(***************************************************************************)
EXTENDS Naturals, FiniteSets

CONSTANTS
    Clients,    \* browsers
    MaxTokens,  \* bound: the number of session tokens and states drawn
    MaxSaves    \* bound: how often the configuration is saved

ASSUME LimitAssumption == MaxTokens \in Nat /\ MaxSaves \in Nat

VARIABLES
    auth,      \* the current manager, s.auth
    sessions,  \* of each manager, the tokens it knows
    expired,   \* tokens and states whose time is over
    states,    \* of each manager, the OAuth states it knows
    drawn,     \* the number of random values drawn
    \* each client's request under way
    pc,        \* what its handler is about to do
    manager,   \* the manager the handler called last
    state,     \* the state a callback brought
    \* the browsers
    cookie,    \* the session token of each client, or 0
    redirect,  \* the state in each client's redirect to the provider, or 0
    \* history
    logins,    \* of each state, the sessions made for it
    ended,     \* tokens of clients that logged out, or whose manager went
    began      \* ended, when each request began

server  == <<auth, sessions, expired, states, drawn>>
request == <<pc, manager, state, began>>
browser == <<cookie, redirect>>
vars    == <<server, request, browser, logins, ended>>

(* Every login under way can still draw its token. *)
Room == drawn + Cardinality({c \in Clients : pc[c] \in {"create", "exchange"}}) < MaxTokens

Managers == 0..MaxSaves
Drawn    == 1..MaxTokens

-----------------------------------------------------------------------------
Init ==
    /\ auth = 0 /\ sessions = [m \in Managers |-> {}] /\ expired = {}
    /\ states = [m \in Managers |-> {}] /\ drawn = 0
    /\ pc = [c \in Clients |-> "idle"] /\ manager = [c \in Clients |-> 0]
    /\ state = [c \in Clients |-> 0] /\ began = [c \in Clients |-> {}]
    /\ cookie = [c \in Clients |-> 0] /\ redirect = [c \in Clients |-> 0]
    /\ logins = [s \in Drawn |-> 0] /\ ended = {}

(* handleLoginSubmit: the password is right, by the manager of the moment. *)
Login(c) ==
    /\ pc[c] = "idle" /\ Room /\ pc' = [pc EXCEPT ![c] = "create"]
    /\ manager' = [manager EXCEPT ![c] = auth]
    /\ UNCHANGED <<server, state, began, browser, logins, ended>>

(* handleOAuthStart: a state is drawn, and expired ones are pruned. *)
OAuthStart(c) ==
    /\ pc[c] = "idle" /\ Room /\ drawn' = drawn + 1
    /\ states' = [states EXCEPT ![auth] = (@ \ expired) \cup {drawn'}]
    /\ redirect' = [redirect EXCEPT ![c] = drawn']
    /\ UNCHANGED <<auth, sessions, expired, request, cookie, logins, ended>>

(* A state that stays good until it expires. *)
BadSpent(s) == [states EXCEPT ![auth] = @ \ ({s} \cap expired)]

Spent(s) == [states EXCEPT ![auth] = @ \ {s}]

(* handleOAuthCallback: the provider sends the browser back with a state;  *)
(* the browser may repeat the request, even while the first one runs.      *)
(* The state is looked up and deleted under the manager's lock.            *)
Callback(c) ==
    /\ pc[c] = "idle" /\ Room
    /\ \E d \in Clients :
          /\ redirect[d] \in states[auth]
          /\ states' = Spent(redirect[d])
          /\ IF redirect[d] \in expired
             THEN UNCHANGED <<pc, manager, state>>
             ELSE /\ pc' = [pc EXCEPT ![c] = "exchange"]
                  /\ manager' = [manager EXCEPT ![c] = auth]
                  /\ state' = [state EXCEPT ![c] = redirect[d]]
    /\ UNCHANGED <<auth, sessions, expired, drawn, began, browser, logins, ended>>

(* The code is exchanged and the user looked up: two requests to the       *)
(* provider, either of which may fail, and the list of allowed users.      *)
Exchange(c) ==
    /\ pc[c] = "exchange"
    /\ pc' \in {[pc EXCEPT ![c] = "create"], [pc EXCEPT ![c] = "idle"]}
    /\ state' = IF pc'[c] = "idle" THEN [state EXCEPT ![c] = 0] ELSE state
    /\ UNCHANGED <<server, manager, began, browser, logins, ended>>

(* CreateSession, of the manager that is current now. *)
CreateSession(c) ==
    /\ pc[c] = "create" /\ pc' = [pc EXCEPT ![c] = "idle"]
    /\ drawn' = drawn + 1
    /\ sessions' = [sessions EXCEPT ![auth] = @ \cup {drawn'}]
    /\ cookie' = [cookie EXCEPT ![c] = drawn']
    /\ logins' = IF state[c] = 0 THEN logins ELSE [logins EXCEPT ![state[c]] = @ + 1]
    /\ state' = [state EXCEPT ![c] = 0]
    /\ UNCHANGED <<auth, expired, states, manager, began, redirect, ended>>

(* WithAuth: a request for a protected page begins; AuthEnabled reads      *)
(* s.auth, and the request's token is looked up in what s.auth is then.    *)
Request(c) ==
    /\ pc[c] = "idle" /\ cookie[c] # 0 /\ pc' = [pc EXCEPT ![c] = "validate"]
    /\ began' = [began EXCEPT ![c] = ended]
    /\ UNCHANGED <<server, manager, state, browser, logins, ended>>

ReadAuth(c) ==
    /\ pc[c] = "validate" /\ pc' = [pc EXCEPT ![c] = "lookup"]
    /\ manager' = [manager EXCEPT ![c] = auth]
    /\ UNCHANGED <<server, state, began, browser, logins, ended>>

(* ValidateRequest: an expired session is removed and refused. *)
Accepts(c) == cookie[c] \in sessions[manager[c]] \ expired

Validate(c) ==
    /\ pc[c] = "lookup"
    /\ pc' = [pc EXCEPT ![c] = IF Accepts(c) THEN "accepted" ELSE "idle"]
    /\ sessions' = IF cookie[c] \in expired
                   THEN [sessions EXCEPT ![manager[c]] = @ \ {cookie[c]}]
                   ELSE sessions
    /\ UNCHANGED <<auth, expired, states, drawn, manager, state, began, browser, logins, ended>>

(* The page is served. *)
Serve(c) ==
    /\ pc[c] = "accepted" /\ pc' = [pc EXCEPT ![c] = "idle"]
    /\ began' = [began EXCEPT ![c] = {}]
    /\ UNCHANGED <<server, manager, state, browser, logins, ended>>

(* handleLogout; the browser keeps a copy of the cookie in other tabs. *)
Logout(c) ==
    /\ pc[c] = "idle"
    /\ sessions' = [sessions EXCEPT ![auth] = @ \ {cookie[c]}]
    /\ ended' = ended \cup ({cookie[c]} \ {0})
    /\ UNCHANGED <<auth, expired, states, drawn, request, browser, logins>>

(* A new manager that takes over the sessions. *)
BadSaveConfig ==
    /\ auth < MaxSaves /\ auth' = auth + 1
    /\ ended' = ended \cup sessions[auth]
    /\ sessions' = [sessions EXCEPT ![auth'] = sessions[auth]]
    /\ UNCHANGED <<expired, states, drawn, request, browser, logins>>

(* handleSaveConfig, of a configuration that is valid and asks for a       *)
(* login: a new manager.  If its secrets cannot be read, the old one stays *)
(* and nothing changes here; one that turns the authentication off, under  *)
(* which every request is served, is left out.                             *)
SaveConfig ==
    /\ auth < MaxSaves /\ auth' = auth + 1
    /\ ended' = ended \cup sessions[auth]
    /\ UNCHANGED <<sessions, expired, states, drawn, request, browser, logins>>

(* Fourteen days, or ten minutes, pass. *)
Expire ==
    /\ \E x \in 1..drawn \ expired : expired' = expired \cup {x}
    /\ UNCHANGED <<auth, sessions, states, drawn, request, browser, logins, ended>>

Next ==
    \/ \E c \in Clients :
          Login(c) \/ OAuthStart(c) \/ Callback(c) \/ Exchange(c) \/ CreateSession(c)
            \/ Request(c) \/ ReadAuth(c) \/ Validate(c) \/ Serve(c) \/ Logout(c)
    \/ SaveConfig \/ Expire

Spec == Init /\ [][Next]_vars

-----------------------------------------------------------------------------
(* At most one session is made for an OAuth state, whatever callbacks race *)
(* for it and however often the configuration is saved in between.         *)
StateUsedOnce == \A s \in Drawn : logins[s] <= 1

(* A request that is accepted carries a session that was not over when the *)
(* request began: not logged out and not of a configuration replaced.      *)
EndedIsRefused == \A c \in Clients : pc[c] = "accepted" => cookie[c] \notin began[c]
=============================================================================
