----------------------------- MODULE McpSession -----------------------------
(***************************************************************************)
(* One McpClient of the chat backend (be/src/mcpClient.js): the transport  *)
(* session it keeps for each scope, the initialisation that concurrent     *)
(* calls share, and the MCP server that hands out sessions, forgets them   *)
(* when it restarts, and may answer late, wrongly or not at all.           *)
(*                                                                         *)
(* A call (listTools, callTool) runs without interruption from one await   *)
(* to the next.  An RPC is sent, its headers arrive and store the session, *)
(* its body arrives and is validated; the call's signal or the timeout of  *)
(* the RPC may end it before either.                                       *)
(***************************************************************************)
CONSTANTS
    Name,         \* which server: sessions of "hrm" are kept per user
    Users,
    Callers,      \* concurrent calls
    SessionIds,   \* ids the server can hand out: bounds its sessions
    None          \* undefined

ASSUME NoneAssumption == None \notin SessionIds \cup Users \cup Callers

VARIABLES
    stateful,         \* whether the server uses sessions at all
    issued,           \* the user whose request created a session
    known,            \* sessions the server still has
    greeted,          \* sessions whose notifications/initialized it accepted
    refused,          \* ... answered with an error and an empty body
    sessions,         \* McpClient.sessions
    initializations,  \* McpClient.initializations: the call that began it
    step,             \* what a call awaits
    user,             \* x-mcp-user-id of a call
    presented,        \* mcp-session-id of the request it awaits
    waited            \* it has waited for an initialisation
server == <<stateful, issued, known, greeted, refused>>
calls == <<step, user, presented, waited>>
vars == <<server, sessions, initializations, calls>>

----------------------------------------------------------------------------
\* Mutant: all users share one session.
ScopeShared(u) == "default"

\* sessionScope
Scope(u) == IF Name = "hrm" THEN u ELSE "default"

Scopes == {Scope(u) : u \in Users}

\* The requests a call sends, and the wait for another call's initialisation.
Fetching == {"initialize", "notify", "request"}
Reading == {"initializeBody", "notifyBody", "errorBody", "requestBody"}
Initializing == {"initialize", "initializeBody", "notify", "notifyBody", "errorBody"}

Init ==
    /\ stateful \in BOOLEAN
    /\ issued = [i \in SessionIds |-> None]
    /\ known = {} /\ greeted = {} /\ refused = {}
    /\ sessions = [s \in Scopes |-> None]
    /\ initializations = [s \in Scopes |-> None]
    /\ step = [c \in Callers |-> "idle"]
    /\ user = [c \in Callers |-> None]
    /\ presented = [c \in Callers |-> None]
    /\ waited = [c \in Callers |-> FALSE]

----------------------------------------------------------------------------
(* A call begins *)

\* Mutant: the initialisation under way is not looked up.
StartUnshared(s) ==
    IF sessions[s] # None THEN "request" ELSE "initialize"

\* initialize, up to its first await
Start(s) ==
    IF sessions[s] # None THEN "request"
    ELSE IF initializations[s] # None THEN "join" ELSE "initialize"

Call(c, u) ==
    LET s == Scope(u) IN
    /\ step[c] = "idle"
    /\ step' = [step EXCEPT ![c] = Start(s)]
    /\ user' = [user EXCEPT ![c] = u]
    /\ presented' = [presented EXCEPT ![c] = sessions[s]]
    /\ waited' = [waited EXCEPT ![c] = (Start(s) # "request")]
    /\ initializations' =
           IF Start(s) = "initialize" THEN [initializations EXCEPT ![s] = c]
           ELSE initializations
    /\ UNCHANGED <<server, sessions>>

----------------------------------------------------------------------------
(* The server handles a request *)

CreateSession(u, id) ==
    /\ stateful
    /\ issued[id] = None
    /\ issued' = [issued EXCEPT ![id] = u]
    /\ known' = known \cup {id}
    /\ UNCHANGED <<stateful, greeted, refused>>

\* notifications/initialized is accepted, or refused without a body.
Greet(id) ==
    /\ \/ greeted' = greeted \cup ({id} \cap known) /\ UNCHANGED refused
       \/ refused' = refused \cup ({id} \cap known) /\ UNCHANGED greeted
    /\ UNCHANGED <<stateful, issued, known>>

\* A request is handled; id is the session its answer names, or None.
Handle(c, id) ==
    \/ /\ step[c] = "initialize" /\ id \in SessionIds
       /\ CreateSession(user[c], id)
    \/ /\ step[c] = "initialize" /\ id = None
       /\ ~stateful /\ UNCHANGED server
    \/ /\ step[c] = "notify" /\ id \in {presented[c]} \cap (known \cup {None})
       /\ Greet(presented[c])
    \/ /\ step[c] = "request" /\ id \in {presented[c]} \cap (known \cup {None})
       /\ UNCHANGED server
    \/ /\ step[c] \in {"notify", "request"} /\ id = None
       /\ presented[c] \notin known /\ UNCHANGED server

\* The server restarts or a session idles out.
Forget(id) ==
    /\ id \in known
    /\ known' = known \ {id}
    /\ UNCHANGED <<stateful, issued, greeted, refused, sessions, initializations, calls>>

----------------------------------------------------------------------------
(* Answers *)

BodyStep ==
    [initialize |-> "initializeBody", notify |-> "notifyBody",
     request |-> "requestBody"]

\* "if (session) this.sessions.set(sessionScope, session)"
Stored(c, id) ==
    IF id = None THEN sessions
    ELSE [sessions EXCEPT ![Scope(user[c])] = id]

Headers(c) ==
    /\ step[c] \in Fetching
    /\ \E id \in SessionIds \cup {None} :
           Handle(c, id) /\ sessions' = Stored(c, id)
    /\ step' = [step EXCEPT ![c] = BodyStep[step[c]]]
    /\ UNCHANGED <<initializations, user, presented, waited>>

\* The server answers the notification with an error that has a body.
Refuse(c) ==
    /\ step[c] = "notify"
    /\ step' = [step EXCEPT ![c] = "errorBody"]
    /\ UNCHANGED <<server, sessions, initializations, user, presented, waited>>

\* Mutant: the calls that joined are never told.
SharersAlone(c) == {c}

\* The calls awaiting the promise of the initialisation c began.
Sharers(c) ==
    {c} \cup {d \in Callers : step[d] = "join" /\ Scope(user[d]) = Scope(user[c])}

\* The promise settles: whoever awaits it sends its request, or fails.
Settle(c, ok) ==
    LET s == Scope(user[c]) IN
    /\ initializations' = [initializations EXCEPT ![s] = None]
    /\ step' = [d \in Callers |->
           IF d \notin Sharers(c) THEN step[d]
           ELSE IF ok THEN "request" ELSE "idle"]
    /\ presented' = [d \in Callers |->
           IF d \notin Sharers(c) THEN presented[d]
           ELSE IF ok THEN sessions[s] ELSE None]
    /\ user' = [d \in Callers |->
           IF d \in Sharers(c) /\ ~ok THEN None ELSE user[d]]
    /\ waited' = [d \in Callers |->
           IF d \in Sharers(c) /\ ~ok THEN FALSE ELSE waited[d]]

\* The call resolves or rejects.
Return(c) ==
    /\ step' = [step EXCEPT ![c] = "idle"]
    /\ user' = [user EXCEPT ![c] = None]
    /\ presented' = [presented EXCEPT ![c] = None]
    /\ waited' = [waited EXCEPT ![c] = FALSE]
    /\ UNCHANGED initializations

\* rpc throws in an initialisation or in the request itself.
Fail(c) ==
    IF step[c] \in Initializing THEN Settle(c, FALSE) ELSE Return(c)

SendNotification(c) ==
    /\ step' = [step EXCEPT ![c] = "notify"]
    /\ presented' = [presented EXCEPT ![c] = sessions[Scope(user[c])]]
    /\ UNCHANGED <<initializations, user, waited>>

\* Mutant: notifications/initialized is left out.
AcceptUngreeted(c) ==
    IF step[c] = "requestBody" THEN Return(c) ELSE Settle(c, TRUE)

\* The body is a valid answer: rpc returns its result.  An empty body is one to
\* a notification, whatever the status: that is looked at after the body.
Accept(c) ==
    IF step[c] = "initializeBody" THEN SendNotification(c)
    ELSE IF step[c] = "notifyBody" THEN Settle(c, TRUE)
    ELSE Return(c)

\* A body that is no MCP answer, or an error, makes rpc throw.
Body(c) ==
    /\ step[c] \in Reading
    /\ (step[c] # "errorBody" /\ Accept(c)) \/ Fail(c)
    /\ UNCHANGED <<server, sessions>>

\* The call's signal or AbortSignal.timeout ends the RPC; the server may have
\* handled it.  A call that joined has no RPC to abort.
Timeout(c) ==
    /\ step[c] \in Fetching \cup Reading
    /\ Fail(c)
    /\ \/ UNCHANGED server
       \/ \E id \in SessionIds \cup {None} : Handle(c, id)
    /\ UNCHANGED sessions

Next ==
    \/ \E c \in Callers, u \in Users : Call(c, u)
    \/ \E c \in Callers : Headers(c) \/ Refuse(c) \/ Body(c) \/ Timeout(c)
    \/ \E id \in SessionIds : Forget(id)

\* Timers fire; nothing is assumed of the server's answers.
Fairness == \A c \in Callers : WF_vars(Timeout(c))

Spec == Init /\ [][Next]_vars /\ Fairness

----------------------------------------------------------------------------
(* Properties *)

(* Maps, calls and the server's sessions hold what they can hold, and a    *)
(* call only waits for an initialisation that is under way.                *)
TypeOK ==
    /\ stateful \in BOOLEAN
    /\ issued \in [SessionIds -> Users \cup {None}]
    /\ known \subseteq SessionIds /\ greeted \cup refused \subseteq SessionIds
    /\ sessions \in [Scopes -> SessionIds \cup {None}]
    /\ initializations \in [Scopes -> Callers \cup {None}]
    /\ step \in [Callers -> Fetching \cup Reading \cup {"idle", "join"}]
    /\ user \in [Callers -> Users \cup {None}]
    /\ presented \in [Callers -> SessionIds \cup {None}]
    /\ waited \in [Callers -> BOOLEAN]
    /\ \A c \in Callers : step[c] = "idle" <=> user[c] = None
    /\ \A c \in Callers :
           step[c] = "join" => initializations[Scope(user[c])] # None

(* mcpClient.js 100-104: no request to the HRM server presents a session   *)
(* that another user's request created, whoever else initialises meanwhile.*)
SessionsKeepTheirUser ==
    Name = "hrm" =>
        \A c \in Callers : presented[c] # None => issued[presented[c]] = user[c]

(* A session once stored is the one all later requests of the scope        *)
(* present: overlapping initialisations never switch it under a call.      *)
(* (Neither does anything else, even after the server has forgotten it.)   *)
StoredSessionStays ==
    [][\A s \in Scopes : sessions[s] # None => sessions'[s] = sessions[s]]_vars

(* A call that led or joined an initialisation sends its request after the *)
(* server has answered notifications/initialized for the session it        *)
(* presents, unless the server has forgotten that session: it accepted the *)
(* notification, or refused it without a body, which rpc takes for success *)
(* (mcpClient.js 55 returns before 88 looks at the status).  An error with *)
(* a body, no answer, and the failure of another call's initialisation do  *)
(* not let a request through; a call that found the session stored may     *)
(* overtake the notification.                                              *)
HandshakePrecedesOwnRequest ==
    \A c \in Callers :
        waited[c] /\ step[c] \in {"request", "requestBody"} /\ stateful =>
            /\ presented[c] # None
            /\ presented[c] \in known => presented[c] \in greeted \cup refused

(* Every call returns, a call that joined included: whatever happens to    *)
(* the initialisation it waits for, its promise settles.                   *)
CallsReturn == \A c \in Callers : step[c] # "idle" ~> step[c] = "idle"
=============================================================================
