------------------------------ MODULE Accounts ------------------------------
(***************************************************************************)
(* Accounts of the chat backend (ApplicationAuthService on PostgreSQL):    *)
(* Google logins and local registrations find a user or create one in      *)
(* several statements, each a transaction of its own, and then open a      *)
(* session.  Names and avatars are left out.                               *)
(***************************************************************************)
EXTENDS Null

CONSTANTS
    UserIds,     \* random ids: bounds the rows of users
    Subjects,    \* Google accounts
    Addresses,   \* normalised e-mail addresses
    Passwords,
    Logins       \* requests, each made once; also the session it opens

VARIABLES
    users,      \* table users
    address,    \* the address Google has verified for an account
    login,      \* a request's next statement and what it holds
    sessions    \* table sessions, by the login that opened the session
accountVars == <<users, address, login, sessions>>

User == [email : Addresses, sub : Subjects \cup {None},
         password : Passwords \cup {None}]

ASSUME AccountsAssumption ==
    /\ None \notin UserIds \cup Subjects \cup Addresses \cup Passwords
    /\ None \notin User

Steps == {"findSub", "update", "findEmail", "link", "findAuth", "setPassword",
          "create", "authenticate", "sweep", "open"}
NoLogin == [step |-> "unsent", sub |-> None, email |-> None,
            password |-> None, user |-> None]

AccountsInit ==
    /\ users = [u \in UserIds |-> None]
    /\ address \in [Subjects -> Addresses]
    /\ \A g, h \in Subjects : address[g] = address[h] => g = h
    /\ login = [l \in Logins |-> NoLogin]
    /\ sessions = [l \in Logins |-> None]

----------------------------------------------------------------------------
(* Requests *)

Arrive(l, step, g, e, w) ==
    /\ login[l].step = "unsent"
    /\ login' = [login EXCEPT ![l] =
           [step |-> step, sub |-> g, email |-> e, password |-> w, user |-> None]]
    /\ UNCHANGED <<users, address, sessions>>

GoogleLogin(l, g) == Arrive(l, "findSub", g, address[g], None)
Register(l, e, w) == Arrive(l, "findAuth", None, e, w)
LocalLogin(l, e, w) == Arrive(l, "authenticate", None, e, w)

\* Google gives an account another address.  One that a login is presenting
\* changes hands no sooner than the login is over.
MoveAddress(g, e) ==
    /\ \A h \in Subjects : address[h] # e
    /\ \A l \in Logins : login[l].email = e => login[l].step \notin Steps
    /\ address' = [address EXCEPT ![g] = e]
    /\ UNCHANGED <<users, login, sessions>>

----------------------------------------------------------------------------
(* Statements *)

Go(l, step, u) == login' = [login EXCEPT ![l] = [@ EXCEPT !.step = step, !.user = u]]

WithSub(g) == {u \in UserIds : users[u] # None /\ users[u].sub = g}
WithEmail(e) == {u \in UserIds : users[u] # None /\ users[u].email = e}

\* A SELECT: the branch taken depends on the row found, if any.
Reads(l, step) == login[l].step = step /\ UNCHANGED <<users, address, sessions>>

FindByGoogleSub(l) ==
    LET found == WithSub(login[l].sub) IN
    /\ Reads(l, "findSub")
    /\ \/ \E u \in found : Go(l, "update", u)
       \/ found = {} /\ Go(l, "findEmail", None)

\* Mutant: an account linked to another identity is linked again.
AfterEmailAlways(l, u) == "link"

AfterEmail(l, u) ==
    IF users[u].sub \in {None, login[l].sub} THEN "link" ELSE "conflict"

FindByEmail(l) ==
    LET found == WithEmail(login[l].email) IN
    /\ Reads(l, "findEmail")
    /\ \/ \E u \in found : Go(l, AfterEmail(l, u), u)
       \/ found = {} /\ Go(l, "create", None)

FindForRegistration(l) ==
    LET found == WithEmail(login[l].email) IN
    /\ Reads(l, "findAuth")
    /\ \/ \E u \in found :
              Go(l, IF users[u].password # None THEN "exists" ELSE "setPassword", u)
       \/ found = {} /\ Go(l, "create", None)

Authenticate(l) ==
    LET valid == {u \in WithEmail(login[l].email) :
                      users[u].password = login[l].password} IN
    /\ Reads(l, "authenticate")
    /\ \/ \E u \in valid : Go(l, "sweep", u)
       \/ valid = {} /\ Go(l, "invalid", None)

\* Mutant: the table has no unique indexes.
AllowedAlways(u, w) == TRUE

\* Unique indexes on lower(email) and google_sub
Allowed(u, w) ==
    /\ WithEmail(w.email) \subseteq {u}
    /\ w.sub # None => WithSub(w.sub) \subseteq {u}

\* An INSERT or UPDATE of one row, refused by a unique index or followed by
\* the opening of a session.
Store(l, u, w) ==
    /\ \/ /\ Allowed(u, w)
          /\ users' = [users EXCEPT ![u] = w]
          /\ Go(l, "sweep", u)
       \/ ~Allowed(u, w) /\ Go(l, "failed", None) /\ UNCHANGED users
    /\ UNCHANGED <<address, sessions>>

UpdateUser(l) ==
    LET u == login[l].user IN
    /\ login[l].step = "update"
    /\ Store(l, u, [users[u] EXCEPT !.email = login[l].email])

LinkGoogleSub(l) ==
    LET u == login[l].user IN
    /\ login[l].step = "link"
    /\ Store(l, u, [users[u] EXCEPT !.sub = login[l].sub])

\* Mutant: the row is written back as the registration found it.
WithPasswordOnly(l) ==
    [email |-> login[l].email, sub |-> None, password |-> login[l].password]

WithPassword(l) == [users[login[l].user] EXCEPT !.password = login[l].password]

SetPasswordHash(l) ==
    /\ login[l].step = "setPassword"
    /\ Store(l, login[l].user, WithPassword(l))

CreateUser(l) ==
    /\ login[l].step = "create"
    /\ \E u \in UserIds :
           /\ users[u] = None
           /\ Store(l, u, [email |-> login[l].email, sub |-> login[l].sub,
                           password |-> login[l].password])

----------------------------------------------------------------------------
(* Sessions *)

DeleteExpiredSessions(l) ==
    /\ login[l].step = "sweep"
    /\ sessions' = [k \in Logins |->
           IF sessions[k] # None /\ sessions[k].over THEN None ELSE sessions[k]]
    /\ Go(l, "open", login[l].user)
    /\ UNCHANGED <<users, address>>

CreateSession(l) ==
    /\ login[l].step = "open"
    /\ sessions' = [sessions EXCEPT ![l] = [user |-> login[l].user, over |-> FALSE]]
    /\ Go(l, "answered", login[l].user)
    /\ UNCHANGED <<users, address>>

\* The session expires, or revokeSession: a logout presents its token.
EndSession(l) ==
    /\ sessions[l] # None /\ ~sessions[l].over
    /\ sessions' = [sessions EXCEPT ![l] = [@ EXCEPT !.over = TRUE]]
    /\ UNCHANGED <<users, address, login>>

Statement(l) ==
    \/ FindByGoogleSub(l) \/ FindByEmail(l) \/ FindForRegistration(l)
    \/ Authenticate(l) \/ UpdateUser(l) \/ LinkGoogleSub(l)
    \/ SetPasswordHash(l) \/ CreateUser(l)
    \/ DeleteExpiredSessions(l) \/ CreateSession(l) \/ EndSession(l)

AccountsNext ==
    \/ \E l \in Logins, g \in Subjects : GoogleLogin(l, g)
    \/ \E l \in Logins, e \in Addresses, w \in Passwords :
           Register(l, e, w) \/ LocalLogin(l, e, w)
    \/ \E g \in Subjects, e \in Addresses : MoveAddress(g, e)
    \/ \E l \in Logins : Statement(l)

AccountsSpec == AccountsInit /\ [][AccountsNext]_accountVars

----------------------------------------------------------------------------
(* The types, the unique indexes, and that a login's user has a row: two   *)
(* first logins of one address do not make two accounts.                   *)
AccountsTypeOK ==
    /\ users \in [UserIds -> User \cup {None}]
    /\ address \in [Subjects -> Addresses]
    /\ login \in [Logins ->
           [step : Steps \cup {"unsent", "conflict", "exists", "invalid",
                               "failed", "answered"},
            sub : Subjects \cup {None}, email : Addresses \cup {None},
            password : Passwords \cup {None}, user : UserIds \cup {None}]]
    /\ sessions \in [Logins -> [user : UserIds, over : BOOLEAN] \cup {None}]
    /\ \A l \in Logins : login[l].user # None => users[login[l].user] # None
    /\ \A u, v \in UserIds :
           u # v /\ users[u] # None /\ users[v] # None =>
               /\ users[u].email # users[v].email
               /\ users[u].sub # None => users[u].sub # users[v].sub

(* applicationAuth.js 29-35 ("Google account conflict"): an account once   *)
(* linked to a Google identity stays linked to it, and one with a password *)
(* keeps having one, whatever logins and registrations overlap.            *)
AccountsKeepTheirLinks ==
    [][\A u \in UserIds : users[u] # None =>
          /\ users[u].sub # None => users'[u].sub = users[u].sub
          /\ users[u].password # None => users'[u].password # None]_accountVars

(* A session opened by a Google login is of the account linked to that     *)
(* identity, in every order of first logins, registrations and changes of  *)
(* address.                                                                *)
GoogleSessionsReachTheirAccount ==
    \A l \in Logins :
        sessions[l] # None /\ login[l].sub # None =>
            users[sessions[l].user].sub = login[l].sub
=============================================================================
