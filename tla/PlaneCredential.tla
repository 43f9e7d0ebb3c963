--------------------------- MODULE PlaneCredential ---------------------------
(***************************************************************************)
(* The Plane integration of the chat backend's users: the row of table     *)
(* integrations that holds a user's OAuth or personal access token and     *)
(* default project, the requests that read and merge it (be/src/           *)
(* integrationService.js, planeScope.js, planeOAuth.js, planeLinking.js)   *)
(* and the refresh of expired OAuth tokens shared by concurrent requests   *)
(* (planeCredentialService.js).                                            *)
(*                                                                         *)
(* Requests interleave at every await.  saveIntegration reads the row,     *)
(* merges its own fields over it and upserts the result, so what it writes *)
(* may be older than what it overwrites.                                   *)
(*                                                                         *)
(* Plane's authorization server is external: it numbers the tokens it      *)
(* grants, rotates a refresh token when it is used or leaves it alone, and *)
(* may omit refresh_token or expires_in from an answer.  Token n stands    *)
(* for the access token, the refresh token and the expiry time of grant n. *)
(***************************************************************************)
EXTENDS Naturals, Sequences, FiniteSets

CONSTANTS
    Users, Calls,
    Projects,     \* Plane projects a user may select
    Operations,   \* the requests under study
    MaxGrants,    \* bound on the tokens granted
    NoRow, NoScope, NoCall

ASSUME OperationsAssumption ==
    Operations \subseteq {"resolve", "scope", "change", "oauth", "pat", "disconnect"}

VARIABLES
    row,        \* the table integrations, provider 'plane'
    lock,       \* PlaneCredentialService.refreshLocks: the refreshing call
    call,       \* the requests
    granted,    \* tokens granted so far: their user and kind (external)
    valid,      \* refresh tokens Plane still accepts (external)
    expired,    \* tokens whose lifetime is over
    available   \* projects Plane lists for its users (external)
vars == <<row, lock, call, granted, valid, expired, available>>

----------------------------------------------------------------------------
(* Types *)

NoToken == 0
Tokens == 1..MaxGrants
Grant == [user : Users, kind : {"oauth", "pat"}]

\* accessToken, refreshToken, expiresAt, credentialType and the project of
\* metadata.defaultProjectId
Integration ==
    [access : Tokens \cup {NoToken}, refresh : Tokens \cup {NoToken},
     expires : Tokens \cup {NoToken}, kind : {"oauth", "pat", "none"},
     scope : Projects \cup {NoScope}]

Empty == [access |-> NoToken, refresh |-> NoToken, expires |-> NoToken,
          kind |-> "none", scope |-> NoScope]

RefreshSteps == {"request", "merge", "store", "reread"}

\* Plane has granted every user a token, and there is a project to select.
ASSUME ConnectionsAssumption ==
    /\ IsFiniteSet(Users) /\ MaxGrants \in Nat /\ Cardinality(Users) <= MaxGrants
    /\ Projects # {}
    /\ NoCall \notin Calls /\ NoRow \notin Integration

Request ==
    [op : Operations, user : Users,
     step : RefreshSteps \cup
            {"idle", "resolve", "read", "wait", "list", "save", "write",
             "done", "failed"},
     seen : Integration \cup {NoRow},       \* the row it holds
     scope : Projects \cup {NoScope},       \* the project it is about
     token : Tokens \cup {NoToken},         \* the token it was granted
     omits : SUBSET {"refresh_token", "expires_in"}]

Finished(c) == call[c].step \in {"done", "failed"}

----------------------------------------------------------------------------
(* Rows *)

NeedsRefresh(integration) ==
    /\ integration.kind = "oauth"
    /\ integration.expires \in expired

\* a ?? b on tokens
OrElse(a, b) == IF a = NoToken THEN b ELSE a

Existing(integration) == IF integration = NoRow THEN Empty ELSE integration

\* Mutant: the type of the answer, bearer, is stored as credentialType.
RefreshedAsBearer(h, existing) ==
    [Existing(existing) EXCEPT !.access = h.token, !.kind = "bearer"]

\* Mutant: the refresh token of the answer is not saved.
RefreshedAccessOnly(h, existing) ==
    [Existing(existing) EXCEPT !.access = h.token, !.kind = "oauth",
        !.refresh = h.seen.refresh, !.expires = h.token]

\* What a refresh saves: it falls back to the refresh token it presented, and
\* to the stored expiry when the answer has none.
Refreshed(h, existing) ==
    LET old == Existing(existing) IN
    [old EXCEPT !.access = h.token,
                !.refresh = IF "refresh_token" \in h.omits THEN h.seen.refresh
                            ELSE h.token,
                !.expires = IF "expires_in" \in h.omits THEN old.expires
                            ELSE h.token,
                !.kind = "oauth"]

\* What a request saves on its own account: metadata is replaced by every
\* connect, so the selected project goes with it.
Merged(h, existing) ==
    LET old == Existing(existing) IN
    CASE h.op = "scope"  -> [old EXCEPT !.scope = h.scope]
      [] h.op = "change" -> [old EXCEPT !.scope = NoScope]
      [] h.op = "pat"    -> [old EXCEPT !.access = h.token, !.kind = "pat",
                                        !.scope = NoScope]
      [] OTHER -> [old EXCEPT
             !.access = h.token, !.kind = "oauth", !.scope = NoScope,
             !.refresh = IF "refresh_token" \in h.omits THEN old.refresh ELSE h.token,
             !.expires = IF "expires_in" \in h.omits THEN old.expires ELSE h.token]

\* saveIntegration refuses a first record without any credential.
Storable(integration, existing) ==
    \/ OrElse(integration.access, integration.refresh) # NoToken
    \/ existing # NoRow

----------------------------------------------------------------------------
(* A user who has connected Plane by OAuth *)

Init ==
    /\ granted \in {g \in [1..Cardinality(Users) -> Grant] :
                       /\ \A i \in DOMAIN g : g[i].kind = "oauth"
                       /\ {g[i].user : i \in DOMAIN g} = Users}
    /\ row = [u \in Users |->
           LET t == CHOOSE i \in DOMAIN granted : granted[i].user = u
           IN [access |-> t, refresh |-> t, expires |-> t, kind |-> "oauth",
               scope |-> CHOOSE p \in Projects : TRUE]]
    /\ lock = [u \in Users |-> NoCall]
    /\ call \in [Calls -> [op : Operations, user : Users, step : {"idle"},
                           seen : {NoRow}, scope : {NoScope},
                           token : {NoToken}, omits : {{}}]]
    /\ valid = DOMAIN granted
    /\ expired = {}
    /\ available = Projects

Step(c, h) == call' = [call EXCEPT ![c] = h]

----------------------------------------------------------------------------
(* Plane (external) *)

Grants(c, kind) ==
    /\ Len(granted) < MaxGrants
    /\ granted' = Append(granted, [user |-> call[c].user, kind |-> kind])

NewToken == Len(granted) + 1

\* The lifetime of an OAuth token is over, or about to be.
Expire(t) ==
    /\ t \in DOMAIN granted \ expired
    /\ granted[t].kind = "oauth"
    /\ expired' = expired \cup {t}
    /\ UNCHANGED <<row, lock, call, granted, valid, available>>

\* A project is deleted or the user loses access to it.
RemoveProject(p) ==
    /\ p \in available
    /\ available' = available \ {p}
    /\ UNCHANGED <<row, lock, call, granted, valid, expired>>

----------------------------------------------------------------------------
(* PlaneCredentialService.resolve *)

\* What a request does once it has a credential.  A change of a work item
\* resolves a second time while it validates the default project.
Resolved(h, integration) ==
    IF h.op = "resolve" THEN [h EXCEPT !.step = "done", !.seen = integration]
    ELSE IF h.op = "scope" \/ h.scope # NoScope
    THEN [h EXCEPT !.step = "list", !.seen = integration]
    ELSE IF integration.scope = NoScope
    THEN [h EXCEPT !.step = "failed"]                    \* PLANE_SCOPE_REQUIRED
    ELSE [h EXCEPT !.step = "resolve", !.scope = integration.scope]

Begin(c) ==
    /\ call[c].step = "idle"
    /\ call[c].op \in {"resolve", "scope", "change"}
    /\ \E p \in IF call[c].op = "scope" THEN Projects ELSE {NoScope} :
           Step(c, [call[c] EXCEPT !.step = "resolve", !.scope = p])
    /\ UNCHANGED <<row, lock, granted, valid, expired, available>>

Read(c) ==
    /\ call[c].step = "resolve"
    /\ Step(c, [call[c] EXCEPT !.step = "read", !.seen = row[call[c].user]])
    /\ UNCHANGED <<row, lock, granted, valid, expired, available>>

\* Mutant: one lock for the refreshes of all users.
LockOfAnyone(user) == IF \E u \in Users : lock[u] # NoCall
                      THEN lock[CHOOSE u \in Users : lock[u] # NoCall] ELSE NoCall

LockOf(user) == lock[user]

\* The answer of getIntegration is handled: the credential is used as it is,
\* or the refresh of another request is joined, or a refresh is sent.
Decide(c) ==
    LET h == call[c]  integration == call[c].seen
    IN /\ h.step = "read"
       /\ \/ /\ integration = NoRow \/ Existing(integration).access = NoToken
             /\ Step(c, [h EXCEPT !.step = "failed"])        \* PLANE_NOT_CONNECTED
             /\ UNCHANGED lock
          \/ /\ integration # NoRow /\ integration.access # NoToken
             /\ ~NeedsRefresh(integration)
             /\ Step(c, Resolved(h, integration))
             /\ UNCHANGED lock
          \/ /\ integration # NoRow /\ integration.access # NoToken
             /\ NeedsRefresh(integration)
             /\ \/ /\ integration.refresh = NoToken
                   /\ Step(c, [h EXCEPT !.step = "failed"])  \* PLANE_REAUTH_REQUIRED
                   /\ UNCHANGED lock
                \/ /\ integration.refresh # NoToken
                   /\ LockOf(h.user) # NoCall
                   /\ Step(c, [h EXCEPT !.step = "wait"])
                   /\ UNCHANGED lock
                \/ /\ integration.refresh # NoToken
                   /\ LockOf(h.user) = NoCall
                   /\ Step(c, [h EXCEPT !.step = "request", !.token = NoToken])
                   /\ lock' = [lock EXCEPT ![h.user] = c]
       /\ UNCHANGED <<row, granted, valid, expired, available>>

\* The calls that wait for the promise in refreshLocks.
Waiting(c) == {d \in Calls : call[d].step = "wait" /\ LockOf(call[d].user) = c}

\* Mutant: the lock is only deleted after a successful refresh.
UnlockOnSuccess(c, outcome) ==
    IF outcome = NoRow THEN lock ELSE [lock EXCEPT ![call[c].user] = NoCall]

Unlock(c, outcome) == [lock EXCEPT ![call[c].user] = NoCall]

\* The refresh promise settles: everyone who awaits it goes on with the same
\* row, or fails with PLANE_REAUTH_REQUIRED.
Settle(c, outcome) ==
    /\ lock' = Unlock(c, outcome)
    /\ call' = [d \in Calls |->
           IF d \notin {c} \cup Waiting(c) THEN call[d]
           ELSE IF outcome = NoRow THEN [call[d] EXCEPT !.step = "failed"]
           ELSE Resolved(call[d], outcome)]

\* Plane takes the refresh token, and rotates it if its answer has another.
Exchange(c, omits) ==
    /\ call[c].step = "request"
    /\ call[c].seen.refresh \in valid
    /\ Grants(c, "oauth")
    /\ valid' = IF "refresh_token" \in omits THEN valid
                ELSE (valid \ {call[c].seen.refresh}) \cup {NewToken}

RefreshAnswered(c) ==
    \E omits \in SUBSET {"refresh_token", "expires_in"} :
        /\ Exchange(c, omits)
        /\ Step(c, [call[c] EXCEPT !.step = "merge", !.token = NewToken,
                                   !.omits = omits])
        /\ UNCHANGED <<row, lock, expired, available>>

\* Plane rejects the refresh token, does not answer, or reading or writing the
\* row fails: whatever goes wrong in refresh is PLANE_REAUTH_REQUIRED.
RefreshFails(c) ==
    /\ call[c].step \in RefreshSteps
    /\ Settle(c, NoRow)
    /\ UNCHANGED <<row, granted, valid, expired, available>>

\* Plane's answer is lost on its way.
RefreshLost(c) ==
    /\ Exchange(c, {})
    /\ lock' = Unlock(c, NoRow)
    /\ call' = [d \in Calls |->
           IF d = c THEN [call[c] EXCEPT !.step = "failed", !.token = NewToken]
           ELSE IF d \in Waiting(c) THEN [call[d] EXCEPT !.step = "failed"]
           ELSE call[d]]
    /\ UNCHANGED <<row, expired, available>>

\* saveIntegration reads the row and merges the new fields over it ...
MergeRefreshed(c) ==
    /\ call[c].step = "merge"
    /\ Step(c, [call[c] EXCEPT !.step = "store",
                               !.seen = Refreshed(call[c], row[call[c].user])])
    /\ UNCHANGED <<row, lock, granted, valid, expired, available>>

\* ... upserts the result ...
StoreRefreshed(c) ==
    /\ call[c].step = "store"
    /\ row' = [row EXCEPT ![call[c].user] = call[c].seen]
    /\ Step(c, [call[c] EXCEPT !.step = "reread"])
    /\ UNCHANGED <<lock, granted, valid, expired, available>>

\* ... and the refresh reads back what is stored by then.
Reread(c) ==
    LET updated == row[call[c].user] IN
    /\ call[c].step = "reread"
    /\ Settle(c, IF updated # NoRow /\ updated.access # NoToken
                 THEN updated ELSE NoRow)
    /\ UNCHANGED <<row, granted, valid, expired, available>>

----------------------------------------------------------------------------
(* PlaneScopeService and the integration routes *)

\* list_projects returns; saveScope requires the project to be among them,
\* validateDefaultProject clears the default project when it is not.
List(c) ==
    LET h == call[c] IN
    /\ h.step = "list"
    /\ Step(c, [h EXCEPT !.step =
           IF (h.op = "scope") = (h.scope \in available) THEN "save"
           ELSE IF h.op = "scope" THEN "failed" ELSE "done"])
    /\ UNCHANGED <<row, lock, granted, valid, expired, available>>

\* The OAuth callback exchanges its code, or a personal token is validated.
Connect(c) ==
    /\ call[c].step = "idle"
    /\ call[c].op \in {"oauth", "pat"}
    /\ \E omits \in IF call[c].op = "pat" THEN {{}}
                    ELSE SUBSET {"refresh_token", "expires_in"} :
           /\ Grants(c, call[c].op)
           /\ valid' = IF call[c].op = "pat" \/ "refresh_token" \in omits
                       THEN valid ELSE valid \cup {NewToken}
           /\ Step(c, [call[c] EXCEPT !.step = "save", !.token = NewToken,
                                      !.omits = omits])
    /\ UNCHANGED <<row, lock, expired, available>>

Merge(c) ==
    LET h == call[c]  existing == row[call[c].user]
        integration == Merged(call[c], row[call[c].user])
    IN /\ h.step = "save"
       /\ Step(c, IF Storable(integration, existing)
                  THEN [h EXCEPT !.step = "write", !.seen = integration]
                  ELSE [h EXCEPT !.step = "failed"])
       /\ UNCHANGED <<row, lock, granted, valid, expired, available>>

\* A change whose default project was cleared fails with PLANE_SCOPE_STALE.
Write(c) ==
    LET h == call[c] IN
    /\ h.step = "write"
    /\ row' = [row EXCEPT ![h.user] = h.seen]
    /\ Step(c, [h EXCEPT !.step = IF h.op = "change" THEN "failed" ELSE "done"])
    /\ UNCHANGED <<lock, granted, valid, expired, available>>

Disconnect(c) ==
    /\ call[c].step = "idle"
    /\ call[c].op = "disconnect"
    /\ row' = [row EXCEPT ![call[c].user] = NoRow]
    /\ Step(c, [call[c] EXCEPT !.step = "done"])
    /\ UNCHANGED <<lock, granted, valid, expired, available>>

\* The database or Plane's MCP server fails a request.
Fail(c) ==
    /\ call[c].step \in {"resolve", "list", "save", "write"}
    /\ Step(c, [call[c] EXCEPT !.step = "failed"])
    /\ UNCHANGED <<row, lock, granted, valid, expired, available>>

\* The backend restarts: requests and locks are gone, rows stay.
Restart ==
    /\ \E c \in Calls : call[c].step # "idle" /\ ~Finished(c)
    /\ lock' = [u \in Users |-> NoCall]
    /\ call' = [c \in Calls |->
           IF call[c].step = "idle" \/ Finished(c) THEN call[c]
           ELSE [call[c] EXCEPT !.step = "failed"]]
    /\ UNCHANGED <<row, granted, valid, expired, available>>

Next ==
    \/ \E c \in Calls :
        \/ Begin(c) \/ Read(c) \/ Decide(c)
        \/ RefreshAnswered(c) \/ RefreshFails(c) \/ RefreshLost(c)
        \/ MergeRefreshed(c) \/ StoreRefreshed(c) \/ Reread(c)
        \/ List(c) \/ Connect(c) \/ Merge(c) \/ Write(c) \/ Disconnect(c) \/ Fail(c)
    \/ \E t \in Tokens : Expire(t)
    \/ \E p \in Projects : RemoveProject(p)
    \/ Restart

Spec == Init /\ [][Next]_vars

----------------------------------------------------------------------------
(* Properties *)

(* Rows, locks, requests and tokens stay within their types.               *)
TypeOK ==
    /\ row \in [Users -> Integration \cup {NoRow}]
    /\ lock \in [Users -> Calls \cup {NoCall}]
    /\ call \in [Calls -> Request]
    /\ granted \in Seq(Grant) /\ Len(granted) <= MaxGrants
    /\ valid \subseteq Tokens /\ expired \subseteq Tokens
    /\ available \subseteq Projects

Refreshing(c) == call[c].step \in RefreshSteps

(* A user has at most one refresh under way, and its lock is held by that  *)
(* refresh and by nothing else: a lock left behind would hand its old      *)
(* result to every later request (planeCredentialService.js:64-90).        *)
LockedWhileRefreshing ==
    \A c \in Calls : Refreshing(c) <=> lock[call[c].user] = c

\* The tokens of a row belong to its user, and the type names the token.
SoundFor(integration, u) ==
    LET used == {integration.access, integration.refresh} \ {NoToken}
    IN /\ \A t \in used : granted[t].user = u
       /\ integration.access # NoToken
              => integration.kind = granted[integration.access].kind

(* An expired credential "can never cause a lookup or fallback to another  *)
(* user's integration" (planeCredentialService.js:17-21): rows and the     *)
(* credentials requests resolve to hold tokens of their own user, and      *)
(* credentialType, which decides between the Bearer and X-API-Key headers, *)
(* is the type of the stored token however saves overlap.                  *)
CredentialsStayWithTheirUser ==
    /\ \A u \in Users : row[u] # NoRow => SoundFor(row[u], u)
    /\ \A c \in Calls : call[c].seen # NoRow => SoundFor(call[c].seen, call[c].user)

\* The row a save other than a refresh found, or the one it made of it, still
\* has the refresh token of u's present row.
WritesBack(c, u) ==
    /\ call[c].user = u /\ call[c].op \notin {"resolve", "disconnect"}
    /\ call[c].seen # NoRow /\ call[c].seen.refresh = row[u].refresh

(* The stored refresh token is one that Plane accepts, unless a refresh is *)
(* under way, one failed before its new token was stored, or a save that   *)
(* read the row before a refresh wrote the spent token back: requests that *)
(* only use the credential never break the connection.                     *)
RefreshTokenUsable ==
    \A u \in Users :
        row[u] # NoRow /\ row[u].refresh # NoToken =>
            \/ row[u].refresh \in valid
            \/ \E c \in Calls :
                  \/ WritesBack(c, u)
                  \/ /\ call[c].user = u /\ call[c].token # NoToken
                     /\ Refreshing(c) \/ call[c].step = "failed"

(* planeScope.js:83, "Clear only this user's stale default": a change that *)
(* clears the default project clears one that Plane no longer lists.  The  *)
(* one it clears may have been selected since it looked.                   *)
OnlyStaleDefaultsAreCleared ==
    [][\A c \in Calls :
          call[c].op = "change" /\ Write(c) /\ row[call[c].user] # NoRow =>
              row[call[c].user].scope \notin available]_vars
=============================================================================
