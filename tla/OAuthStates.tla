----------------------------- MODULE OAuthStates -----------------------------
(***************************************************************************)
(* The states of the backend's OAuth flows: OAuthStateStore for Plane and  *)
(* Discord, the googleStates map for logins, and the callbacks that        *)
(* consume them.  Both are Maps of the process: a restart empties them.    *)
(***************************************************************************)
EXTENDS Naturals, Null

CONSTANTS
    Users,
    States,      \* random state parameters: bounds the flows
    Callbacks,   \* requests to a callback route, each made once
    Ttl,         \* oauthStateTtlMs, and the ten minutes of a Google login
    MaxTime      \* bound of the clock

VARIABLES
    clock,
    pending,    \* the entry of a state in its Map
    issued,     \* history: the flow a state was created for
    callback    \* a callback's progress, its state and the flow it serves
oauthVars == <<clock, pending, issued, callback>>

Flows ==
    [user : Users, provider : {"plane", "discord"}]
        \cup [user : {None}, provider : {"google"}]
Providers == {"plane", "discord", "google"}
Entry == [flow : Flows, expiresAt : Nat]

ASSUME OAuthAssumption ==
    /\ Ttl \in Nat \ {0} /\ MaxTime \in Nat
    /\ None \notin Users /\ None \notin States
    /\ None \notin Flows /\ None \notin Entry

\* Google logins have a Map of their own.
MapOf(provider) == IF provider = "google" THEN "google" ELSE "integration"

Waiting == [step |-> "waiting", state |-> None, flow |-> None]

OAuthInit ==
    /\ clock = 0
    /\ pending = [s \in States |-> None]
    /\ issued = [s \in States |-> None]
    /\ callback = [r \in Callbacks |-> Waiting]

\* OAuthStateStore.create; GET /api/auth/google
StartFlow(s, flow) ==
    /\ issued[s] = None
    /\ issued' = [issued EXCEPT ![s] = flow]
    /\ pending' = [pending EXCEPT ![s] = [flow |-> flow, expiresAt |-> clock + Ttl]]
    /\ UNCHANGED <<clock, callback>>

Found(s, provider) ==
    pending[s] # None /\ MapOf(pending[s].flow.provider) = MapOf(provider)

\* Mutant: an expired entry is accepted.
AcceptedLate(s, provider) == Found(s, provider) /\ pending[s].flow.provider = provider

\* OAuthStateStore.consume returns the entry.
Accepted(s, provider) ==
    /\ Found(s, provider)
    /\ pending[s].flow.provider = provider
    /\ pending[s].expiresAt > clock

\* this.states.delete(state), whether or not the entry is accepted
Consumed(s, provider) ==
    IF Found(s, provider) THEN [pending EXCEPT ![s] = None] ELSE pending

\* A callback arrives: accepted, it goes on to exchange the provider's code,
\* unless the provider reports an error.
Receive(r, s, provider) ==
    /\ callback[r].step = "waiting"
    /\ pending' = Consumed(s, provider)
    /\ \E next \in IF Accepted(s, provider) THEN {"exchanging", "failed"}
                   ELSE {"refused"} :
           callback' = [callback EXCEPT ![r] =
               [step |-> next, state |-> s,
                flow |-> IF Accepted(s, provider) THEN pending[s].flow ELSE None]]
    /\ UNCHANGED <<clock, issued>>

\* The code is exchanged and the integration saved, or the user logged in.
Finish(r) ==
    /\ callback[r].step = "exchanging"
    /\ \E next \in {"linked", "failed"} :
           callback' = [callback EXCEPT ![r] = [@ EXCEPT !.step = next]]
    /\ UNCHANGED <<clock, pending, issued>>

Restart ==
    /\ pending' = [s \in States |-> None]
    /\ callback' = [r \in Callbacks |->
           IF callback[r].step = "exchanging"
           THEN [callback[r] EXCEPT !.step = "failed"] ELSE callback[r]]
    /\ UNCHANGED <<clock, issued>>

TimePasses ==
    /\ clock < MaxTime
    /\ clock' = clock + 1
    /\ UNCHANGED <<pending, issued, callback>>

OAuthNext ==
    \/ \E s \in States, flow \in Flows : StartFlow(s, flow)
    \/ \E r \in Callbacks, s \in States, p \in Providers : Receive(r, s, p)
    \/ \E r \in Callbacks : Finish(r)
    \/ Restart
    \/ TimePasses

OAuthSpec == OAuthInit /\ [][OAuthNext]_oauthVars

(* The types, and that an entry belongs to the flow its state was created  *)
(* for, which no callback has reached yet.                                 *)
OAuthTypeOK ==
    /\ clock \in 0..MaxTime
    /\ issued \in [States -> Flows \cup {None}]
    /\ pending \in [States -> Entry \cup {None}]
    /\ callback \in [Callbacks ->
           [step : {"waiting", "refused", "exchanging", "linked", "failed"},
            state : States \cup {None}, flow : Flows \cup {None}]]
    /\ \A s \in States : pending[s] # None =>
           /\ issued[s] = pending[s].flow
           /\ \A r \in Callbacks : callback[r].state = s => callback[r].flow = None

(* oauthState.js 15-20: each state serves one callback, for the user and   *)
(* the provider it was created for; expiry, a callback of the other        *)
(* provider and a restart only take that away.                             *)
OAuthToken ==
    INSTANCE OneShotToken WITH
        Tokens <- States, Requests <- Callbacks, Contexts <- Flows,
        context <- issued,
        open <- {s \in States : pending[s] # None /\ pending[s].expiresAt > clock},
        uses <- [s \in States |->
            {<<r, callback[r].flow>> :
                r \in {q \in Callbacks : callback[q].state = s /\ callback[q].flow # None}}]

StatesAreOneShot == OAuthToken!OneShotSpec
=============================================================================
