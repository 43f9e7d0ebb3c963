------------------------ MODULE PlaneCredentialProofs ------------------------
(* Proofs about PlaneCredential, for every value of its constants. *)
EXTENDS PlaneCredential, FiniteSetTheorems, TLAPS

-----------------------------------------------------------------------------
(* The inductive invariant: a request holds tokens that were granted to    *)
(* its user, and what a refresh is about to store is good until it does.   *)

(* SoundFor, of tokens that exist: no later grant can change it. *)
Sound(integration, u) ==
    /\ \A t \in {integration.access, integration.refresh} \ {NoToken} :
           t \in DOMAIN granted /\ granted[t].user = u
    /\ integration.access # NoToken =>
           integration.kind = granted[integration.access].kind

Own(h) ==
    /\ h.seen # NoRow => Sound(h.seen, h.user)
    /\ h.token # NoToken =>
           /\ h.token \in DOMAIN granted
           /\ granted[h.token].user = h.user
           /\ granted[h.token].kind = IF h.op = "pat" THEN "pat" ELSE "oauth"

Resolving == {"resolve", "read", "wait", "list"} \cup RefreshSteps

(* What a request is at each of its steps *)
OnTrack(h) ==
    /\ h.step \in Resolving => h.op \in {"resolve", "scope", "change"}
    /\ h.step = "list" => h.op # "resolve"
    /\ h.step \in {"save", "write"} => h.op \in {"scope", "change", "oauth", "pat"}
    /\ h.step = "save" /\ h.op \in {"oauth", "pat"} => h.token # NoToken
    /\ h.step \in {"request", "merge", "store", "write"} => h.seen # NoRow
    /\ h.step = "request" => h.seen.refresh # NoToken
    /\ h.step \in {"merge", "store"} => h.token # NoToken

(* Nobody else spends the refresh token a refresh is about to store. *)
Fresh(h) ==
    /\ h.step = "merge" =>
           IF "refresh_token" \in h.omits THEN h.seen.refresh \in valid
           ELSE h.token \in valid
    /\ h.step = "store" => h.seen.refresh \in valid

(* Why the refresh token of u's row may be spent: a refresh has its        *)
(* successor, or had it and failed, or a save that is over wrote it back.  *)
Excuses(c, u) ==
    /\ call[c].user = u
    /\ \/ call[c].token # NoToken /\ call[c].step \in {"merge", "store", "failed"}
       \/ /\ Finished(c) /\ call[c].op \notin {"resolve", "disconnect"}
          /\ call[c].seen # NoRow /\ call[c].seen.refresh = row[u].refresh

Connected(u) ==
    row[u] # NoRow /\ row[u].refresh # NoToken =>
        row[u].refresh \in valid \/ \E c \in Calls : Excuses(c, u)

LocksAreOwn == \A u \in Users : lock[u] # NoCall => call[lock[u]].user = u

IInv ==
    /\ TypeOK
    /\ valid \subseteq DOMAIN granted
    /\ LockedWhileRefreshing /\ LocksAreOwn
    /\ \A u \in Users : row[u] # NoRow => Sound(row[u], u)
    /\ \A c \in Calls : Own(call[c]) /\ OnTrack(call[c]) /\ Fresh(call[c])
    /\ \A u \in Users : Connected(u)

-----------------------------------------------------------------------------
(* A refresh is no other step of a request, and no token is NoToken. *)
LEMMA StepsDiffer ==
    /\ RefreshSteps \cap {"idle", "resolve", "read", "wait", "list", "save", "write",
                         "done", "failed"} = {}
    /\ Tokens \subseteq Nat /\ NoToken \notin Tokens
BY ConnectionsAssumption DEF RefreshSteps, Tokens, NoToken

(* A function on 1..n is a sequence of length n. *)
LEMMA TupleIsSeq ==
    ASSUME NEW S, NEW n \in Nat, NEW f \in [1..n -> S]
    PROVE  f \in Seq(S) /\ Len(f) = n /\ DOMAIN f = 1..n
OBVIOUS

(* Everyone starts with the token of the grant that is theirs. *)
LEMMA IInvInit == Init => IInv
<1> SUFFICES ASSUME Init PROVE IInv
  OBVIOUS
<1> USE ConnectionsAssumption DEF Init
<1>1. Cardinality(Users) \in Nat
  BY FS_CardinalityType
<1>2. /\ granted \in [1..Cardinality(Users) -> Grant]
      /\ \A i \in DOMAIN granted : granted[i].kind = "oauth"
      /\ {granted[i].user : i \in DOMAIN granted} = Users
  OBVIOUS
<1>3. granted \in Seq(Grant) /\ Len(granted) = Cardinality(Users)
      /\ DOMAIN granted = 1..Cardinality(Users)
  BY <1>1, <1>2, TupleIsSeq
<1>4. DOMAIN granted \subseteq Tokens
  BY <1>1, <1>3 DEF Tokens
<1>5. ASSUME NEW u \in Users
      PROVE  /\ row[u] \in Integration
             /\ row[u].access \in DOMAIN granted /\ row[u].refresh = row[u].access
             /\ row[u].kind = "oauth" /\ granted[row[u].access].user = u
  <2> DEFINE t == CHOOSE i \in DOMAIN granted : granted[i].user = u
             p == CHOOSE q \in Projects : TRUE
  <2>1. t \in DOMAIN granted /\ granted[t].user = u
    BY <1>2
  <2>2. p \in Projects
    OBVIOUS
  <2>3. row[u] = [access |-> t, refresh |-> t, expires |-> t, kind |-> "oauth", scope |-> p]
    OBVIOUS
  <2> HIDE DEF t, p
  <2> QED
    BY <2>1, <2>2, <2>3, <1>4 DEF Integration
<1>6. \A c \in Calls : call[c] \in Request /\ call[c].step = "idle"
                      /\ call[c].seen = NoRow /\ call[c].token = NoToken
  BY DEF Request, NoToken
<1>7. TypeOK
  <2>1. row \in [Users -> Integration \cup {NoRow}]
    <3>1. row = [u \in Users |-> row[u]]
      OBVIOUS
    <3> QED
      BY <1>5, <3>1
  <2>2. call \in [Calls -> Request]
    <3>1. call = [c \in Calls |-> call[c]]
      OBVIOUS
    <3> QED
      BY <1>6, <3>1
  <2> QED
    BY <1>1, <1>3, <1>4, <2>1, <2>2 DEF TypeOK
<1>8. LockedWhileRefreshing /\ LocksAreOwn
  BY <1>6 DEF LockedWhileRefreshing, LocksAreOwn, Refreshing, RefreshSteps, Request
<1>9. \A u \in Users : row[u] # NoRow => Sound(row[u], u)
  BY <1>2, <1>5 DEF Sound
<1>10. \A c \in Calls : Own(call[c]) /\ OnTrack(call[c]) /\ Fresh(call[c])
  BY <1>6 DEF Own, OnTrack, Fresh, Resolving, RefreshSteps
<1>11. \A u \in Users : Connected(u)
  BY <1>5 DEF Connected
<1> QED
  BY <1>7, <1>8, <1>9, <1>10, <1>11 DEF IInv

-----------------------------------------------------------------------------
(* What the actions have in common *)

(* One request moves on without touching rows, locks or grants. *)
LEMMA StepKeepsIInv ==
    ASSUME IInv, NEW c \in Calls, NEW h \in Request, Step(c, h),
           UNCHANGED <<row, lock, granted, valid, expired, available>>,
           h.user = call[c].user, ~Finished(c),
           h.step \in RefreshSteps <=> call[c].step \in RefreshSteps,
           call[c].step \in {"merge", "store"} =>
               h.step \in {"merge", "store", "failed"} /\ h.token = call[c].token,
           Own(h), OnTrack(h), Fresh(h)
    PROVE  IInv'
<1>1. call \in [Calls -> Request] /\ call' = [call EXCEPT ![c] = h]
  BY DEF IInv, TypeOK, Step
<1>2. call'[c] = h /\ \A d \in Calls \ {c} : call'[d] = call[d]
  BY <1>1
<1>3. TypeOK'
  BY <1>1 DEF IInv, TypeOK
<1>4. LockedWhileRefreshing' /\ LocksAreOwn'
  BY <1>2 DEF IInv, TypeOK, LockedWhileRefreshing, LocksAreOwn, Refreshing
<1>5. \A u \in Users : row'[u] # NoRow => Sound(row[u], u)'
  BY DEF IInv, Sound
<1>6. \A d \in Calls : (Own(call[d]) /\ OnTrack(call[d]) /\ Fresh(call[d]))'
  BY <1>2 DEF IInv, Own, Sound, OnTrack, Fresh
<1>7. ASSUME NEW u \in Users PROVE Connected(u)'
  <2>1. ASSUME NEW d \in Calls, Excuses(d, u) PROVE Excuses(d, u)'
    BY <1>2, <2>1 DEF Excuses, Finished
  <2> QED
    BY <2>1 DEF IInv, Connected
<1> QED
  BY <1>3, <1>4, <1>5, <1>6, <1>7 DEF IInv

(* A grant leaves what was granted before as it is. *)
LEMMA GrantKeeps ==
    ASSUME IInv, NEW g \in Grant, Len(granted) < MaxGrants,
           granted' = Append(granted, g)
    PROVE  /\ NewToken \in Tokens /\ NewToken \notin DOMAIN granted
           /\ granted' \in Seq(Grant) /\ Len(granted') <= MaxGrants
           /\ DOMAIN granted' = DOMAIN granted \cup {NewToken}
           /\ granted'[NewToken] = g
           /\ \A t \in DOMAIN granted : granted'[t] = granted[t]
<1>1. granted \in Seq(Grant) /\ Len(granted) \in Nat /\ DOMAIN granted = 1..Len(granted)
  BY DEF IInv, TypeOK
<1> QED
  BY <1>1, ConnectionsAssumption DEF Tokens, NewToken

(* So rows and requests stay sound. *)
LEMMA SoundStays ==
    ASSUME NEW i \in Integration, NEW u, Sound(i, u),
           DOMAIN granted \subseteq DOMAIN granted',
           \A t \in DOMAIN granted : granted'[t] = granted[t]
    PROVE  Sound(i, u)'
BY DEF Sound

LEMMA OwnStays ==
    ASSUME NEW h \in Request, Own(h),
           DOMAIN granted \subseteq DOMAIN granted',
           \A t \in DOMAIN granted : granted'[t] = granted[t]
    PROVE  Own(h)'
<1>1. h.seen # NoRow => h.seen \in Integration
  BY DEF Request
<1> QED
  BY <1>1, SoundStays DEF Own

-----------------------------------------------------------------------------
(* Requests that use the credential *)

(* Going on with a sound credential keeps a request on its track. *)
LEMMA ResolvedKeeps ==
    ASSUME NEW h \in Request, NEW i \in Integration, h.step \in Resolving,
           Own(h), OnTrack(h), Sound(i, h.user)
    PROVE  /\ Resolved(h, i) \in Request
           /\ Resolved(h, i).user = h.user /\ Resolved(h, i).token = h.token
           /\ Resolved(h, i).step \in {"done", "list", "failed", "resolve"}
           /\ Own(Resolved(h, i)) /\ OnTrack(Resolved(h, i)) /\ Fresh(Resolved(h, i))
<1>1. h.op \in {"resolve", "scope", "change"} /\ i # NoRow
  BY ConnectionsAssumption DEF OnTrack
<1>2. i.scope \in Projects \cup {NoScope}
  BY DEF Integration
<1> DEFINE r == Resolved(h, i)
<1>3. \/ r = [h EXCEPT !.step = "done", !.seen = i]
      \/ h.op # "resolve" /\ r = [h EXCEPT !.step = "list", !.seen = i]
      \/ r = [h EXCEPT !.step = "failed"]
      \/ r = [h EXCEPT !.step = "resolve", !.scope = i.scope]
  BY DEF Resolved
<1>4. r \in Request /\ r.user = h.user /\ r.token = h.token /\ r.op = h.op
      /\ r.seen \in {h.seen, i} /\ r.step \in {"done", "list", "failed", "resolve"}
      /\ (r.step = "list" => h.op # "resolve")
  BY <1>2, <1>3 DEF Request
<1> HIDE DEF r
<1>5. Own(r)
  BY <1>4 DEF Own
<1>6. OnTrack(r) /\ Fresh(r)
  BY <1>1, <1>4 DEF OnTrack, Fresh, Resolving, RefreshSteps
<1> QED
  BY <1>4, <1>5, <1>6 DEF r

LEMMA BeginKeeps ==
    ASSUME IInv, NEW c \in Calls, Begin(c)
    PROVE  IInv'
<1>1. call[c] \in Request /\ Own(call[c]) /\ OnTrack(call[c])
  BY DEF IInv, TypeOK
<1>2. PICK p \in Projects \cup {NoScope} :
        Step(c, [call[c] EXCEPT !.step = "resolve", !.scope = p])
  BY DEF Begin
<1> DEFINE h == [call[c] EXCEPT !.step = "resolve", !.scope = p]
<1>3. h \in Request /\ h.user = call[c].user /\ h.step = "resolve"
      /\ h.op = call[c].op /\ h.seen = call[c].seen /\ h.token = call[c].token
  BY <1>1 DEF Request
<1>4. Own(h) /\ OnTrack(h) /\ Fresh(h)
  BY <1>1, <1>3 DEF Begin, Own, OnTrack, Fresh, Resolving, RefreshSteps
<1> HIDE DEF h
<1> QED
  BY <1>2, <1>3, <1>4, StepKeepsIInv DEF Begin, Finished, RefreshSteps, h

LEMMA ReadKeeps ==
    ASSUME IInv, NEW c \in Calls, Read(c)
    PROVE  IInv'
<1>1. call[c] \in Request /\ Own(call[c]) /\ OnTrack(call[c])
  BY DEF IInv, TypeOK
<1>2. row[call[c].user] \in Integration \cup {NoRow}
      /\ (row[call[c].user] # NoRow => Sound(row[call[c].user], call[c].user))
  BY <1>1 DEF IInv, TypeOK, Request
<1> DEFINE h == [call[c] EXCEPT !.step = "read", !.seen = row[call[c].user]]
<1>3. h \in Request /\ h.user = call[c].user /\ h.step = "read"
      /\ h.op = call[c].op /\ h.seen = row[call[c].user] /\ h.token = call[c].token
  BY <1>1, <1>2 DEF Request
<1>4. Own(h) /\ OnTrack(h) /\ Fresh(h)
  BY <1>1, <1>2, <1>3 DEF Read, Own, OnTrack, Fresh, Resolving, RefreshSteps
<1>5. Step(c, h)
  BY DEF Read
<1> HIDE DEF h
<1> QED
  BY <1>3, <1>4, <1>5, StepKeepsIInv DEF Read, Finished, RefreshSteps

(* A request that gives up, at any step of its own *)
LEMMA FailedKeeps ==
    ASSUME IInv, NEW c \in Calls, Step(c, [call[c] EXCEPT !.step = "failed"]),
           ~Finished(c), call[c].step \notin RefreshSteps,
           UNCHANGED <<row, lock, granted, valid, expired, available>>
    PROVE  IInv'
<1>1. call[c] \in Request /\ Own(call[c]) /\ OnTrack(call[c])
  BY DEF IInv, TypeOK
<1> DEFINE h == [call[c] EXCEPT !.step = "failed"]
<1>2. h \in Request /\ h.user = call[c].user /\ h.step = "failed"
      /\ h.op = call[c].op /\ h.seen = call[c].seen /\ h.token = call[c].token
  BY <1>1 DEF Request
<1>3. Own(h) /\ OnTrack(h) /\ Fresh(h)
  BY <1>1, <1>2 DEF Own, OnTrack, Fresh, Resolving, RefreshSteps
<1> HIDE DEF h
<1> QED
  BY <1>2, <1>3, StepKeepsIInv DEF RefreshSteps, h

LEMMA DecideKeeps ==
    ASSUME IInv, NEW c \in Calls, Decide(c)
    PROVE  IInv'
<1> DEFINE i == call[c].seen
<1>1. call[c] \in Request /\ Own(call[c]) /\ OnTrack(call[c]) /\ call[c].step = "read"
      /\ UNCHANGED <<row, granted, valid, expired, available>>
  BY DEF IInv, TypeOK, Decide
<1>2. ~Finished(c) /\ call[c].step \notin RefreshSteps /\ call[c].step \in Resolving
  BY <1>1 DEF Finished, RefreshSteps, Resolving
<1>3. CASE Step(c, [call[c] EXCEPT !.step = "failed"]) /\ UNCHANGED lock
  BY <1>1, <1>2, <1>3, FailedKeeps
<1>4. CASE i # NoRow /\ Step(c, Resolved(call[c], i)) /\ UNCHANGED lock
  <2>1. i \in Integration /\ Sound(i, call[c].user)
    BY <1>1, <1>4 DEF Request, Own
  <2>2. /\ Resolved(call[c], i) \in Request
        /\ Resolved(call[c], i).user = call[c].user
        /\ Resolved(call[c], i).step \in {"done", "list", "failed", "resolve"}
        /\ Own(Resolved(call[c], i)) /\ OnTrack(Resolved(call[c], i))
        /\ Fresh(Resolved(call[c], i))
    BY <1>1, <1>2, <2>1, ResolvedKeeps
  <2> QED
    BY <1>1, <1>2, <1>4, <2>2, StepKeepsIInv DEF RefreshSteps
<1>5. CASE Step(c, [call[c] EXCEPT !.step = "wait"]) /\ UNCHANGED lock
  <2> DEFINE h == [call[c] EXCEPT !.step = "wait"]
  <2>1. h \in Request /\ h.user = call[c].user /\ h.step = "wait"
        /\ h.op = call[c].op /\ h.seen = call[c].seen /\ h.token = call[c].token
    BY <1>1 DEF Request
  <2>2. Own(h) /\ OnTrack(h) /\ Fresh(h)
    BY <1>1, <2>1 DEF Own, OnTrack, Fresh, Resolving, RefreshSteps
  <2>3. Step(c, h)
    BY <1>5
  <2> HIDE DEF h
  <2> QED
    BY <1>1, <1>2, <1>5, <2>1, <2>2, <2>3, StepKeepsIInv DEF RefreshSteps
<1>6. CASE /\ i # NoRow /\ i.refresh # NoToken /\ LockOf(call[c].user) = NoCall
           /\ Step(c, [call[c] EXCEPT !.step = "request", !.token = NoToken])
           /\ lock' = [lock EXCEPT ![call[c].user] = c]
  <2> DEFINE h == [call[c] EXCEPT !.step = "request", !.token = NoToken]
  <2>1. h \in Request /\ h.user = call[c].user /\ h.step = "request"
        /\ h.op = call[c].op /\ h.seen = call[c].seen /\ h.token = NoToken
    BY <1>1 DEF Request, RefreshSteps
  <2>2. Own(h) /\ OnTrack(h) /\ Fresh(h)
    BY <1>1, <1>6, <2>1 DEF Own, OnTrack, Fresh, Resolving, RefreshSteps
  <2>3. call' = [call EXCEPT ![c] = h]
    BY <1>6 DEF Step
  <2> HIDE DEF h
  <2>4. call'[c] = h /\ \A d \in Calls \ {c} : call'[d] = call[d]
    BY <2>3 DEF IInv, TypeOK
  <2>5. TypeOK'
    BY <1>1, <1>6, <2>1, <2>3 DEF IInv, TypeOK, Request
  <2>6. LockedWhileRefreshing'
    <3> SUFFICES ASSUME NEW d \in Calls PROVE (Refreshing(d) <=> lock[call[d].user] = d)'
      BY DEF LockedWhileRefreshing
    <3>1. lock \in [Users -> Calls \cup {NoCall}] /\ call[d] \in Request
          /\ (Refreshing(d) <=> lock[call[d].user] = d)
      BY DEF IInv, TypeOK, LockedWhileRefreshing
    <3>2. call[c].user \in Users /\ call[d].user \in Users
      BY <1>1, <3>1 DEF Request
    <3>3. CASE d = c
      BY <1>6, <2>1, <2>4, <3>1, <3>2, <3>3 DEF Refreshing, RefreshSteps
    <3>4. CASE d # c
      BY <1>6, <2>4, <3>1, <3>2, <3>4, ConnectionsAssumption DEF Refreshing, LockOf
    <3> QED
      BY <3>3, <3>4
  <2>10. LocksAreOwn'
    BY <1>1, <1>6, <2>1, <2>4 DEF IInv, TypeOK, LocksAreOwn, Request
  <2>7. \A u \in Users : row'[u] # NoRow => Sound(row[u], u)'
    BY <1>1 DEF IInv, Sound
  <2>8. \A d \in Calls : (Own(call[d]) /\ OnTrack(call[d]) /\ Fresh(call[d]))'
    BY <1>1, <2>2, <2>4 DEF IInv, Own, Sound, OnTrack, Fresh
  <2>9. ASSUME NEW u \in Users PROVE Connected(u)'
    <3>1. ASSUME NEW d \in Calls, Excuses(d, u) PROVE Excuses(d, u)'
      BY <1>1, <2>4, <3>1 DEF Excuses, Finished
    <3> QED
      BY <1>1, <3>1 DEF IInv, Connected
  <2> QED
    BY <1>1, <2>5, <2>6, <2>7, <2>8, <2>9, <2>10 DEF IInv
<1> QED
  BY <1>3, <1>4, <1>5, <1>6 DEF Decide

LEMMA FailKeeps ==
    ASSUME IInv, NEW c \in Calls, Fail(c)
    PROVE  IInv'
BY FailedKeeps DEF Fail, Finished, RefreshSteps

LEMMA ListKeeps ==
    ASSUME IInv, NEW c \in Calls, List(c)
    PROVE  IInv'
<1>1. call[c] \in Request /\ Own(call[c]) /\ OnTrack(call[c]) /\ call[c].step = "list"
  BY DEF IInv, TypeOK, List
<1>2. PICK s \in {"save", "failed", "done"} : Step(c, [call[c] EXCEPT !.step = s])
  BY DEF List
<1> DEFINE h == [call[c] EXCEPT !.step = s]
<1>3. h \in Request /\ h.user = call[c].user /\ h.step = s
      /\ h.op = call[c].op /\ h.seen = call[c].seen /\ h.token = call[c].token
  BY <1>1 DEF Request
<1>4. Own(h) /\ OnTrack(h) /\ Fresh(h)
  BY <1>1, <1>3 DEF Own, OnTrack, Fresh, Resolving, RefreshSteps
<1>5. Step(c, h)
  BY <1>2
<1> HIDE DEF h
<1> QED
  BY <1>1, <1>3, <1>4, <1>5, StepKeepsIInv DEF List, Finished, RefreshSteps


-----------------------------------------------------------------------------
(* The refresh *)

(* Two refreshes under way are of different users. *)
LEMMA OneRefreshPerUser ==
    ASSUME IInv, NEW c \in Calls, NEW d \in Calls, Refreshing(c), Refreshing(d),
           call[c].user = call[d].user
    PROVE  c = d
BY DEF IInv, LockedWhileRefreshing

(* The tokens that requests and rows of other users hold are not the one a *)
(* refresh spends.                                                         *)
LEMMA SpentTokenIsOwn ==
    ASSUME IInv, NEW c \in Calls, call[c].step = "request"
    PROVE  LET spent == call[c].seen.refresh IN
           /\ spent \in DOMAIN granted
           /\ \A u \in Users \ {call[c].user} : row[u] # NoRow => row[u].refresh # spent
           /\ \A d \in Calls \ {c} : call[d].step \in {"merge", "store"} =>
                  /\ call[d].seen.refresh # spent
                  /\ call[d].token # spent
<1>1. call[c] \in Request /\ Own(call[c]) /\ OnTrack(call[c])
  BY DEF IInv, TypeOK
<1>2. Sound(call[c].seen, call[c].user) /\ call[c].seen.refresh # NoToken
      /\ call[c].seen \in Integration
  BY <1>1 DEF Own, OnTrack, Request
<1> DEFINE spent == call[c].seen.refresh
<1>3. spent \in DOMAIN granted /\ granted[spent].user = call[c].user /\ spent # NoToken
  BY <1>2 DEF Sound
<1>4. \A u \in Users \ {call[c].user} : row[u] # NoRow => row[u].refresh # spent
  BY <1>3 DEF IInv, Sound
<1>5. ASSUME NEW d \in Calls \ {c}, call[d].step \in {"merge", "store"}
      PROVE  call[d].seen.refresh # spent /\ call[d].token # spent
  <2>1. call[d] \in Request /\ Own(call[d]) /\ OnTrack(call[d])
    BY DEF IInv, TypeOK
  <2>2. call[d].user # call[c].user
    BY <1>5, OneRefreshPerUser DEF Refreshing, RefreshSteps
  <2>3. call[d].token # spent
    BY <1>3, <2>1, <2>2 DEF Own
  <2> QED
    BY <1>3, <1>5, <2>1, <2>2, <2>3 DEF Own, OnTrack, Sound
<1> QED
  BY <1>3, <1>4, <1>5


(* What an exchange does to grants and accepted refresh tokens. *)
LEMMA ExchangeKeeps ==
    ASSUME IInv, NEW c \in Calls, NEW omits \in SUBSET {"refresh_token", "expires_in"},
           Exchange(c, omits)
    PROVE  /\ NewToken \in Tokens /\ NewToken \notin DOMAIN granted
           /\ granted' \in Seq(Grant) /\ Len(granted') <= MaxGrants
           /\ DOMAIN granted' = DOMAIN granted \cup {NewToken}
           /\ granted'[NewToken] = [user |-> call[c].user, kind |-> "oauth"]
           /\ \A t \in DOMAIN granted : granted'[t] = granted[t]
           /\ valid' \subseteq DOMAIN granted'
           /\ "refresh_token" \notin omits => NewToken \in valid'
           /\ "refresh_token" \in omits => call[c].seen.refresh \in valid'
           /\ valid \ {call[c].seen.refresh} \subseteq valid'
<1>1. call[c].user \in Users /\ call[c].seen.refresh \in valid
  BY DEF IInv, TypeOK, Request, Exchange
<1>2. [user |-> call[c].user, kind |-> "oauth"] \in Grant
  BY <1>1 DEF Grant
<1>3. Len(granted) < MaxGrants
      /\ granted' = Append(granted, [user |-> call[c].user, kind |-> "oauth"])
  BY DEF Exchange, Grants
<1>4. /\ NewToken \in Tokens /\ NewToken \notin DOMAIN granted
      /\ granted' \in Seq(Grant) /\ Len(granted') <= MaxGrants
      /\ DOMAIN granted' = DOMAIN granted \cup {NewToken}
      /\ granted'[NewToken] = [user |-> call[c].user, kind |-> "oauth"]
      /\ \A t \in DOMAIN granted : granted'[t] = granted[t]
  BY <1>2, <1>3, GrantKeeps
<1>5. valid \subseteq DOMAIN granted
  BY DEF IInv
<1> QED
  BY <1>1, <1>4, <1>5 DEF Exchange

(* What an exchange leaves of the parts about other requests and rows.     *)
LEMMA ExchangeKeepsOthers ==
    ASSUME IInv, NEW c \in Calls, NEW omits \in SUBSET {"refresh_token", "expires_in"},
           Exchange(c, omits), UNCHANGED row
    PROVE  /\ \A u \in Users : row'[u] # NoRow => Sound(row[u], u)'
           /\ \A d \in Calls \ {c} : call'[d] = call[d] =>
                  (Own(call[d]) /\ OnTrack(call[d]) /\ Fresh(call[d]))'
           /\ \A u \in Users \ {call[c].user} :
                  row[u] # NoRow /\ row[u].refresh \in valid => row[u].refresh \in valid'
<1>1. call[c].step = "request"
  BY DEF Exchange
<1>2. /\ DOMAIN granted \subseteq DOMAIN granted'
      /\ \A t \in DOMAIN granted : granted'[t] = granted[t]
      /\ valid \ {call[c].seen.refresh} \subseteq valid'
  BY ExchangeKeeps
<1>3. ASSUME NEW u \in Users, row[u] # NoRow
      PROVE  Sound(row[u], u)'
  <2>1. row[u] \in Integration /\ Sound(row[u], u)
    BY <1>3 DEF IInv, TypeOK
  <2> QED
    BY <1>2, <2>1 DEF Sound
<1>4. ASSUME NEW d \in Calls \ {c}, call'[d] = call[d]
      PROVE  (Own(call[d]) /\ OnTrack(call[d]) /\ Fresh(call[d]))'
  <2>1. call[d] \in Request /\ Own(call[d]) /\ OnTrack(call[d]) /\ Fresh(call[d])
    BY DEF IInv, TypeOK
  <2>2. Own(call[d])'
    BY <1>2, <1>4, <2>1, OwnStays DEF Own, Sound
  <2>3. Fresh(call[d])'
    BY <1>1, <1>2, <1>4, <2>1, SpentTokenIsOwn DEF Fresh
  <2> QED
    BY <1>4, <2>1, <2>2, <2>3 DEF OnTrack
<1>5. \A u \in Users \ {call[c].user} :
          row[u] # NoRow /\ row[u].refresh \in valid => row[u].refresh \in valid'
  BY <1>1, <1>2, SpentTokenIsOwn
<1> QED
  BY <1>3, <1>4, <1>5

LEMMA RefreshAnsweredKeeps ==
    ASSUME IInv, NEW c \in Calls, RefreshAnswered(c)
    PROVE  IInv'
<1>1. PICK omits \in SUBSET {"refresh_token", "expires_in"} :
        /\ Exchange(c, omits)
        /\ Step(c, [call[c] EXCEPT !.step = "merge", !.token = NewToken, !.omits = omits])
  BY DEF RefreshAnswered
<1>2. UNCHANGED <<row, lock, expired, available>>
  BY DEF RefreshAnswered
<1>3. call[c] \in Request /\ Own(call[c]) /\ OnTrack(call[c])
      /\ call[c].step = "request" /\ call[c].user \in Users
  BY <1>1 DEF IInv, TypeOK, Exchange, Request
<1>4. /\ NewToken \in Tokens
      /\ granted' \in Seq(Grant) /\ Len(granted') <= MaxGrants
      /\ DOMAIN granted' = DOMAIN granted \cup {NewToken}
      /\ granted'[NewToken] = [user |-> call[c].user, kind |-> "oauth"]
      /\ \A t \in DOMAIN granted : granted'[t] = granted[t]
      /\ valid' \subseteq DOMAIN granted'
      /\ "refresh_token" \notin omits => NewToken \in valid'
      /\ "refresh_token" \in omits => call[c].seen.refresh \in valid'
  BY <1>1, ExchangeKeeps
<1> DEFINE h == [call[c] EXCEPT !.step = "merge", !.token = NewToken, !.omits = omits]
<1>5. h \in Request /\ h.user = call[c].user /\ h.step = "merge" /\ h.op = call[c].op
      /\ h.seen = call[c].seen /\ h.token = NewToken /\ h.omits = omits
  BY <1>3, <1>4 DEF Request, RefreshSteps
<1>6. call' = [call EXCEPT ![c] = h]
  BY <1>1 DEF Step
<1> HIDE DEF h
<1>7. call'[c] = h /\ \A d \in Calls \ {c} : call'[d] = call[d]
  BY <1>6 DEF IInv, TypeOK
<1>8. NewToken # NoToken
  BY <1>4, StepsDiffer
<1>9. TypeOK' /\ (valid \subseteq DOMAIN granted)'
  BY <1>1, <1>2, <1>4, <1>5, <1>6, ConnectionsAssumption DEF IInv, TypeOK, Tokens
<1>10. LockedWhileRefreshing' /\ LocksAreOwn'
  BY <1>2, <1>3, <1>5, <1>7
     DEF IInv, TypeOK, LockedWhileRefreshing, LocksAreOwn, Refreshing, RefreshSteps
<1>11. \A u \in Users : row'[u] # NoRow => Sound(row[u], u)'
  BY <1>1, <1>2, ExchangeKeepsOthers
<1>12. ASSUME NEW d \in Calls PROVE (Own(call[d]) /\ OnTrack(call[d]) /\ Fresh(call[d]))'
  <2>1. CASE d # c
    BY <1>1, <1>2, <1>7, <2>1, ExchangeKeepsOthers
  <2>2. CASE d = c
    <3>1. h.op # "pat"
      BY <1>3, <1>5 DEF OnTrack, Resolving, RefreshSteps
    <3>2. Own(call[c])'
      <4>1. call'[c].seen = call[c].seen /\ call'[c].user = call[c].user
            /\ call'[c].op # "pat" /\ call'[c].token = NewToken
        BY <1>5, <1>7, <3>1
      <4>2. call'[c].seen # NoRow => Sound(call[c].seen, call[c].user)'
        BY <1>3, <1>4, <4>1 DEF Own, Sound
      <4> QED
        BY <1>4, <4>1, <4>2 DEF Own
    <3>3. OnTrack(call[c])'
      BY <1>3, <1>5, <1>7, <1>8 DEF OnTrack, Resolving, RefreshSteps
    <3>4. Fresh(call[c])'
      BY <1>4, <1>5, <1>7 DEF Fresh
    <3> QED
      BY <2>2, <3>2, <3>3, <3>4
  <2> QED
    BY <2>1, <2>2
<1>13. ASSUME NEW u \in Users PROVE Connected(u)'
  <2>1. CASE u = call[c].user
    BY <1>5, <1>7, <1>8, <2>1 DEF Connected, Excuses
  <2>2. CASE u # call[c].user
    <3>1. ASSUME NEW d \in Calls, Excuses(d, u) PROVE Excuses(d, u)'
      BY <1>2, <1>7, <2>2, <3>1 DEF Excuses, Finished
    <3>2. row[u] # NoRow /\ row[u].refresh \in valid => row[u].refresh \in valid'
      BY <1>1, <1>2, <2>2, ExchangeKeepsOthers
    <3> QED
      BY <1>2, <3>1, <3>2 DEF IInv, Connected
  <2> QED
    BY <2>1, <2>2
<1> QED
  BY <1>9, <1>10, <1>11, <1>12, <1>13 DEF IInv


(* The refresh of c is over: its lock is free and nobody refreshes for it. *)
LEMMA UnlockKeeps ==
    ASSUME IInv, NEW c \in Calls, Refreshing(c),
           lock' = [lock EXCEPT ![call[c].user] = NoCall],
           \A d \in Calls : call'[d].user = call[d].user,
           \A d \in {c} \cup Waiting(c) : call'[d].step \notin RefreshSteps,
           \A d \in Calls \ ({c} \cup Waiting(c)) : call'[d] = call[d]
    PROVE  /\ LockedWhileRefreshing' /\ LocksAreOwn'
           /\ lock' \in [Users -> Calls \cup {NoCall}]
<1>1. lock \in [Users -> Calls \cup {NoCall}] /\ call \in [Calls -> Request]
      /\ LockedWhileRefreshing
  BY DEF IInv, TypeOK
<1>2. call[c].user \in Users /\ lock[call[c].user] = c
  BY <1>1 DEF Request, LockedWhileRefreshing
<1>3. ASSUME NEW d \in Calls PROVE (Refreshing(d) <=> lock[call[d].user] = d)'
  <2>1. call[d].user \in Users /\ (Refreshing(d) <=> lock[call[d].user] = d)
    BY <1>1 DEF Request, LockedWhileRefreshing
  <2>2. CASE d = c
    BY <1>1, <1>2, <2>2, ConnectionsAssumption DEF Refreshing
  <2>3. CASE d \in Waiting(c) /\ d # c
    BY <1>1, <1>2, <2>1, <2>3, ConnectionsAssumption DEF Refreshing, Waiting, LockOf
  <2>4. CASE d \notin {c} \cup Waiting(c)
    BY <1>1, <1>2, <2>1, <2>4, ConnectionsAssumption DEF Refreshing
  <2> QED
    BY <2>2, <2>3, <2>4
<1>4. LocksAreOwn'
  BY <1>1, <1>2 DEF IInv, LocksAreOwn
<1> QED
  BY <1>1, <1>3, <1>4 DEF LockedWhileRefreshing

(* Everyone goes on with the row that was read back, or fails. *)
LEMMA SettleKeeps ==
    ASSUME IInv, NEW c \in Calls, Refreshing(c),
           NEW outcome \in Integration \cup {NoRow}, Settle(c, outcome),
           outcome # NoRow => Sound(outcome, call[c].user) /\ call[c].step = "reread",
           UNCHANGED <<row, granted, valid, expired, available>>
    PROVE  IInv'
<1>1. /\ lock' = [lock EXCEPT ![call[c].user] = NoCall]
      /\ call' = [d \in Calls |->
             IF d \notin {c} \cup Waiting(c) THEN call[d]
             ELSE IF outcome = NoRow THEN [call[d] EXCEPT !.step = "failed"]
             ELSE Resolved(call[d], outcome)]
  BY DEF Settle, Unlock
<1>2. \A d \in Calls : call[d] \in Request /\ Own(call[d]) /\ OnTrack(call[d]) /\ Fresh(call[d])
  BY DEF IInv, TypeOK
<1>3. ASSUME NEW d \in Waiting(c)
      PROVE  d \in Calls /\ call[d].step = "wait" /\ call[d].user = call[c].user
  <2>1. d \in Calls /\ call[d].step = "wait" /\ lock[call[d].user] = c
    BY DEF Waiting, LockOf
  <2>2. call[d].user \in Users
    BY <1>2, <2>1 DEF Request
  <2> QED
    BY <2>1, <2>2, ConnectionsAssumption DEF IInv, LocksAreOwn
<1>4. ASSUME NEW d \in {c} \cup Waiting(c)
      PROVE  /\ call'[d] \in Request /\ call'[d].user = call[d].user
             /\ call'[d].token = call[d].token
             /\ call'[d].step \in {"done", "list", "failed", "resolve"}
             /\ outcome = NoRow => call'[d].step = "failed"
             /\ Own(call'[d]) /\ OnTrack(call'[d]) /\ Fresh(call'[d])
  <2>1. d \in Calls /\ call[d].step \in Resolving /\ call[d].user = call[c].user
    BY <1>3 DEF Refreshing, Resolving
  <2>2. CASE outcome = NoRow
    <3>1. call'[d] = [call[d] EXCEPT !.step = "failed"]
      BY <1>1, <2>1, <2>2
    <3>2. /\ call'[d] \in Request /\ call'[d].user = call[d].user
          /\ call'[d].token = call[d].token /\ call'[d].step = "failed"
          /\ call'[d].op = call[d].op /\ call'[d].seen = call[d].seen
      BY <1>2, <2>1, <3>1 DEF Request
    <3>3. Own(call'[d])
      BY <1>2, <2>1, <3>2 DEF Own
    <3> QED
      BY <3>2, <3>3 DEF OnTrack, Fresh, Resolving, RefreshSteps
  <2>3. CASE outcome # NoRow
    <3>1. call'[d] = Resolved(call[d], outcome)
      BY <1>1, <2>1, <2>3
    <3>2. outcome \in Integration /\ Sound(outcome, call[d].user)
      BY <2>1, <2>3
    <3> QED
      BY <1>2, <2>1, <2>3, <3>1, <3>2, ResolvedKeeps
  <2> QED
    BY <2>2, <2>3
<1>5. \A d \in Calls \ ({c} \cup Waiting(c)) : call'[d] = call[d]
  BY <1>1
<1>6. call' \in [Calls -> Request]
  BY <1>1, <1>2, <1>4, <1>5
<1>7. LockedWhileRefreshing' /\ LocksAreOwn' /\ lock' \in [Users -> Calls \cup {NoCall}]
  BY <1>1, <1>4, <1>5, UnlockKeeps DEF RefreshSteps
<1>8. TypeOK' /\ (valid \subseteq DOMAIN granted)'
  BY <1>6, <1>7 DEF IInv, TypeOK
<1>9. \A u \in Users : row'[u] # NoRow => Sound(row[u], u)'
  BY DEF IInv, Sound
<1>10. \A d \in Calls : (Own(call[d]) /\ OnTrack(call[d]) /\ Fresh(call[d]))'
  BY <1>2, <1>4, <1>5 DEF Own, Sound, OnTrack, Fresh
<1>11. ASSUME NEW u \in Users PROVE Connected(u)'
  <2>1. ASSUME NEW d \in Calls, Excuses(d, u) PROVE Excuses(d, u)'
    <3>1. CASE d \notin {c} \cup Waiting(c)
      BY <1>5, <2>1, <3>1 DEF Excuses, Finished
    <3>2. CASE d = c
      BY <1>4, <2>1, <3>2 DEF Excuses, Finished, Refreshing, RefreshSteps
    <3>3. CASE d \in Waiting(c)
      BY <1>3, <2>1, <3>3 DEF Excuses, Finished
    <3> QED
      BY <3>1, <3>2, <3>3
  <2> QED
    BY <2>1 DEF IInv, Connected
<1> QED
  BY <1>7, <1>8, <1>9, <1>10, <1>11 DEF IInv

LEMMA RefreshFailsKeeps ==
    ASSUME IInv, NEW c \in Calls, RefreshFails(c)
    PROVE  IInv'
BY SettleKeeps DEF RefreshFails, Refreshing

LEMMA RereadKeeps ==
    ASSUME IInv, NEW c \in Calls, Reread(c)
    PROVE  IInv'
<1> DEFINE updated == row[call[c].user]
           outcome == IF updated # NoRow /\ updated.access # NoToken THEN updated ELSE NoRow
<1>1. call[c].user \in Users
  BY DEF IInv, TypeOK, Request
<1>2. updated \in Integration \cup {NoRow}
      /\ (updated # NoRow => Sound(updated, call[c].user))
  BY <1>1 DEF IInv, TypeOK
<1>3. outcome \in Integration \cup {NoRow}
      /\ (outcome # NoRow => Sound(outcome, call[c].user))
  BY <1>2
<1>4. Settle(c, outcome) /\ call[c].step = "reread"
      /\ UNCHANGED <<row, granted, valid, expired, available>>
  BY DEF Reread
<1> HIDE DEF outcome
<1> QED
  BY <1>3, <1>4, SettleKeeps DEF Refreshing, RefreshSteps


(* The answer is lost: the token is spent, and nobody has its successor. *)
LEMMA RefreshLostKeeps ==
    ASSUME IInv, NEW c \in Calls, RefreshLost(c)
    PROVE  IInv'
<1>1. /\ Exchange(c, {}) /\ UNCHANGED <<row, expired, available>>
      /\ lock' = [lock EXCEPT ![call[c].user] = NoCall]
      /\ call' = [d \in Calls |->
             IF d = c THEN [call[c] EXCEPT !.step = "failed", !.token = NewToken]
             ELSE IF d \in Waiting(c) THEN [call[d] EXCEPT !.step = "failed"]
             ELSE call[d]]
  BY DEF RefreshLost, Unlock
<1>2. \A d \in Calls : call[d] \in Request /\ Own(call[d]) /\ OnTrack(call[d]) /\ Fresh(call[d])
  BY DEF IInv, TypeOK
<1>3. call[c].step = "request" /\ call[c].op # "pat"
  BY <1>1, <1>2 DEF Exchange, OnTrack, Resolving, RefreshSteps
<1>4. /\ NewToken \in Tokens
      /\ granted' \in Seq(Grant) /\ Len(granted') <= MaxGrants
      /\ DOMAIN granted' = DOMAIN granted \cup {NewToken}
      /\ granted'[NewToken] = [user |-> call[c].user, kind |-> "oauth"]
      /\ \A t \in DOMAIN granted : granted'[t] = granted[t]
      /\ valid' \subseteq DOMAIN granted'
  BY <1>1, ExchangeKeeps
<1>5. NewToken # NoToken
  BY <1>4, StepsDiffer
<1>6. \A d \in Waiting(c) : d \in Calls /\ call[d].step = "wait" /\ d # c
  BY <1>3 DEF Waiting
<1>7. /\ call'[c] \in Request /\ call'[c].user = call[c].user
      /\ call'[c].token = NewToken /\ call'[c].step = "failed"
      /\ call'[c].op = call[c].op /\ call'[c].seen = call[c].seen
  <2>1. call'[c] = [call[c] EXCEPT !.step = "failed", !.token = NewToken]
    BY <1>1
  <2>2. call[c] \in Request /\ NewToken \in Tokens
    BY <1>2, <1>4
  <2>3. [call[c] EXCEPT !.step = "failed", !.token = NewToken] \in Request
    BY <2>2 DEF Request
  <2> QED
    BY <2>1, <2>2, <2>3 DEF Request
<1>8. ASSUME NEW d \in Waiting(c)
      PROVE  /\ call'[d] \in Request /\ call'[d].user = call[d].user
             /\ call'[d].token = call[d].token /\ call'[d].step = "failed"
             /\ call'[d].op = call[d].op /\ call'[d].seen = call[d].seen
  BY <1>1, <1>2, <1>6 DEF Request
<1>9. \A d \in Calls \ ({c} \cup Waiting(c)) : call'[d] = call[d]
  BY <1>1
<1>10. call' \in [Calls -> Request]
  BY <1>1, <1>2, <1>7, <1>8, <1>9
<1>11. LockedWhileRefreshing' /\ LocksAreOwn' /\ lock' \in [Users -> Calls \cup {NoCall}]
  BY <1>1, <1>3, <1>7, <1>8, <1>9, UnlockKeeps DEF RefreshSteps, Refreshing
<1>12. TypeOK' /\ (valid \subseteq DOMAIN granted)'
  BY <1>1, <1>4, <1>10, <1>11, ConnectionsAssumption DEF IInv, TypeOK, Tokens
<1>13. \A u \in Users : row'[u] # NoRow => Sound(row[u], u)'
  BY <1>1, ExchangeKeepsOthers
<1>14. ASSUME NEW d \in Calls PROVE (Own(call[d]) /\ OnTrack(call[d]) /\ Fresh(call[d]))'
  <2>1. call'[d].seen # NoRow => call'[d].seen = call[d].seen /\ Sound(call[d].seen, call[d].user)'
    <3>1. call'[d].seen = call[d].seen /\ call'[d].user = call[d].user
      BY <1>7, <1>8, <1>9
    <3>2. call[d].seen # NoRow => Sound(call[d].seen, call[d].user)
      BY <1>2 DEF Own
    <3> QED
      BY <1>4, <3>1, <3>2 DEF Sound
  <2>2. Own(call[d])'
    <3>1. CASE d = c
      BY <1>3, <1>4, <1>7, <2>1, <3>1 DEF Own
    <3>2. CASE d # c
      <4>1. call'[d].token = call[d].token /\ call'[d].op = call[d].op
            /\ call'[d].user = call[d].user
        BY <1>8, <1>9, <3>2
      <4> QED
        BY <1>2, <1>4, <2>1, <4>1 DEF Own
    <3> QED
      BY <3>1, <3>2
  <2>3. CASE d \in {c} \cup Waiting(c)
    BY <1>7, <1>8, <2>2, <2>3 DEF OnTrack, Fresh, Resolving, RefreshSteps
  <2>4. CASE d \notin {c} \cup Waiting(c)
    BY <1>1, <1>9, <2>4, ExchangeKeepsOthers
  <2> QED
    BY <2>3, <2>4
<1>15. ASSUME NEW u \in Users PROVE Connected(u)'
  <2>1. CASE u = call[c].user
    BY <1>5, <1>7, <2>1 DEF Connected, Excuses
  <2>2. CASE u # call[c].user
    <3>1. ASSUME NEW d \in Calls, Excuses(d, u) PROVE Excuses(d, u)'
      <4>1. d \notin {c} \cup Waiting(c)
        BY <1>6, <2>2, <3>1 DEF Excuses, Finished
      <4> QED
        BY <1>1, <1>9, <3>1, <4>1 DEF Excuses, Finished
    <3>2. row[u] # NoRow /\ row[u].refresh \in valid => row[u].refresh \in valid'
      BY <1>1, <2>2, ExchangeKeepsOthers
    <3> QED
      BY <1>1, <3>1, <3>2 DEF IInv, Connected
  <2> QED
    BY <2>1, <2>2
<1> QED
  BY <1>11, <1>12, <1>13, <1>14, <1>15 DEF IInv

(* What a refresh makes of the row it read is sound. *)
LEMMA RefreshedRow ==
    ASSUME NEW h \in Request, NEW existing \in Integration \cup {NoRow},
           existing # NoRow => Sound(existing, h.user), Own(h), h.token # NoToken,
           h.seen # NoRow, h.op # "pat"
    PROVE  Refreshed(h, existing) \in Integration /\ Sound(Refreshed(h, existing), h.user)
<1> DEFINE old == Existing(existing)
           i == Refreshed(h, existing)
<1>1. old \in Integration /\ Sound(old, h.user)
  BY DEF Existing, Empty, Integration, Sound
<1>2. h.seen \in Integration /\ Sound(h.seen, h.user) /\ h.token \in Tokens
  BY DEF Own, Request
<1>3. h.token \in DOMAIN granted /\ granted[h.token].user = h.user
      /\ granted[h.token].kind = "oauth"
  BY DEF Own
<1>4. /\ i \in Integration /\ i.access = h.token /\ i.kind = "oauth"
      /\ i.refresh \in {h.seen.refresh, h.token}
  BY <1>1, <1>2 DEF Refreshed, Integration
<1> HIDE DEF i
<1>5. Sound(i, h.user)
  BY <1>2, <1>3, <1>4 DEF Sound
<1> QED
  BY <1>4, <1>5 DEF i

LEMMA MergeRefreshedKeeps ==
    ASSUME IInv, NEW c \in Calls, MergeRefreshed(c)
    PROVE  IInv'
<1>1. call[c] \in Request /\ Own(call[c]) /\ OnTrack(call[c]) /\ Fresh(call[c])
      /\ call[c].step = "merge"
  BY DEF IInv, TypeOK, MergeRefreshed
<1>2. row[call[c].user] \in Integration \cup {NoRow}
      /\ (row[call[c].user] # NoRow => Sound(row[call[c].user], call[c].user))
  BY <1>1 DEF IInv, TypeOK, Request
<1> DEFINE i == Refreshed(call[c], row[call[c].user])
           h == [call[c] EXCEPT !.step = "store", !.seen = i]
<1>3. call[c].op # "pat" /\ call[c].seen # NoRow /\ call[c].token # NoToken
  BY <1>1 DEF OnTrack, Resolving, RefreshSteps
<1>4. i \in Integration /\ Sound(i, call[c].user)
  BY <1>1, <1>2, <1>3, RefreshedRow
<1>5. i.refresh \in valid
  BY <1>1 DEF Refreshed, Fresh, Existing, Empty, Integration
<1> HIDE DEF i
<1>6. h \in Request /\ h.user = call[c].user /\ h.step = "store"
      /\ h.op = call[c].op /\ h.seen = i /\ h.token = call[c].token
  BY <1>1, <1>4 DEF Request, RefreshSteps
<1>7. Step(c, h)
  BY DEF MergeRefreshed, i
<1> HIDE DEF h
<1>8. Own(h) /\ OnTrack(h) /\ Fresh(h)
  BY <1>1, <1>3, <1>4, <1>5, <1>6, ConnectionsAssumption
     DEF Own, OnTrack, Fresh, Resolving, RefreshSteps
<1> QED
  BY <1>1, <1>6, <1>7, <1>8, StepKeepsIInv DEF MergeRefreshed, Finished, RefreshSteps


(* A row is replaced by what a save made of it, or removed. *)
LEMMA ReplacedRowKeeps ==
    ASSUME IInv, NEW c \in Calls, NEW i \in Integration \cup {NoRow}, NEW h \in Request,
           row' = [row EXCEPT ![call[c].user] = i], Step(c, h),
           UNCHANGED <<lock, granted, valid, expired, available>>,
           i # NoRow => Sound(i, call[c].user),
           h.user = call[c].user, h.step \in RefreshSteps <=> call[c].step \in RefreshSteps,
           Own(h), OnTrack(h), Fresh(h), Connected(call[c].user)'
    PROVE  IInv'
<1>1. call \in [Calls -> Request] /\ call' = [call EXCEPT ![c] = h]
      /\ row \in [Users -> Integration \cup {NoRow}] /\ call[c].user \in Users
  BY DEF IInv, TypeOK, Step, Request
<1>2. call'[c] = h /\ \A d \in Calls \ {c} : call'[d] = call[d]
  BY <1>1
<1>3. row'[call[c].user] = i /\ \A u \in Users \ {call[c].user} : row'[u] = row[u]
  BY <1>1
<1>4. TypeOK' /\ (valid \subseteq DOMAIN granted)'
  BY <1>1 DEF IInv, TypeOK
<1>5. LockedWhileRefreshing' /\ LocksAreOwn'
  BY <1>2 DEF IInv, TypeOK, LockedWhileRefreshing, LocksAreOwn, Refreshing
<1>6. \A u \in Users : row'[u] # NoRow => Sound(row[u], u)'
  BY <1>3 DEF IInv, Sound
<1>7. \A d \in Calls : (Own(call[d]) /\ OnTrack(call[d]) /\ Fresh(call[d]))'
  BY <1>2 DEF IInv, Own, Sound, OnTrack, Fresh
<1>8. ASSUME NEW u \in Users PROVE Connected(u)'
  <2>1. CASE u = call[c].user
    <3>1. call'[c].user = call[c].user
      BY <1>2
    <3> QED
      BY <2>1, <3>1 DEF Connected, Excuses, Finished
  <2>2. CASE u # call[c].user
    <3>1. ASSUME NEW d \in Calls, Excuses(d, u) PROVE Excuses(d, u)'
      BY <1>2, <1>3, <2>2, <3>1 DEF Excuses, Finished
    <3> QED
      BY <1>3, <2>2, <3>1 DEF IInv, Connected
  <2> QED
    BY <2>1, <2>2
<1> QED
  BY <1>4, <1>5, <1>6, <1>7, <1>8 DEF IInv

LEMMA StoreRefreshedKeeps ==
    ASSUME IInv, NEW c \in Calls, StoreRefreshed(c)
    PROVE  IInv'
<1>1. call[c] \in Request /\ Own(call[c]) /\ OnTrack(call[c]) /\ Fresh(call[c])
      /\ call[c].step = "store" /\ call[c].user \in Users
      /\ row \in [Users -> Integration \cup {NoRow}]
  BY DEF IInv, TypeOK, StoreRefreshed, Request
<1> DEFINE h == [call[c] EXCEPT !.step = "reread"]
<1>2. h \in Request /\ h.user = call[c].user /\ h.step = "reread"
      /\ h.op = call[c].op /\ h.seen = call[c].seen /\ h.token = call[c].token
  BY <1>1 DEF Request, RefreshSteps
<1>3. /\ row' = [row EXCEPT ![call[c].user] = call[c].seen] /\ Step(c, h)
      /\ UNCHANGED <<lock, granted, valid, expired, available>>
  BY DEF StoreRefreshed
<1> HIDE DEF h
<1>4. call[c].seen \in Integration /\ Sound(call[c].seen, call[c].user)
      /\ call[c].seen.refresh \in valid
  BY <1>1 DEF Request, Own, OnTrack, Fresh
<1>5. Own(h) /\ OnTrack(h) /\ Fresh(h)
  BY <1>1, <1>2 DEF Own, OnTrack, Fresh, Resolving, RefreshSteps
<1>6. row'[call[c].user].refresh \in valid'
  BY <1>1, <1>3, <1>4
<1>7. call'[c] = h
  BY <1>3 DEF IInv, TypeOK, Step
<1>8. Connected(call[c].user)'
  BY <1>2, <1>6, <1>7 DEF Connected
<1> QED
  BY <1>1, <1>2, <1>3, <1>4, <1>5, <1>8, ReplacedRowKeeps DEF RefreshSteps

LEMMA WriteKeeps ==
    ASSUME IInv, NEW c \in Calls, Write(c)
    PROVE  IInv'
<1>1. call[c] \in Request /\ Own(call[c]) /\ OnTrack(call[c])
      /\ call[c].step = "write" /\ call[c].user \in Users
      /\ row \in [Users -> Integration \cup {NoRow}]
  BY DEF IInv, TypeOK, Write, Request
<1>2. PICK s \in {"done", "failed"} : Step(c, [call[c] EXCEPT !.step = s])
  BY DEF Write
<1> DEFINE h == [call[c] EXCEPT !.step = s]
<1>3. h \in Request /\ h.user = call[c].user /\ h.step = s
      /\ h.op = call[c].op /\ h.seen = call[c].seen /\ h.token = call[c].token
  BY <1>1 DEF Request
<1>4. /\ row' = [row EXCEPT ![call[c].user] = call[c].seen] /\ Step(c, h)
      /\ UNCHANGED <<lock, granted, valid, expired, available>>
  BY <1>2 DEF Write
<1> HIDE DEF h
<1>5. call[c].seen \in Integration /\ Sound(call[c].seen, call[c].user)
      /\ call[c].op \notin {"resolve", "disconnect"} /\ call[c].seen # NoRow
  BY <1>1 DEF Request, Own, OnTrack
<1>6. Own(h) /\ OnTrack(h) /\ Fresh(h)
  BY <1>1, <1>3 DEF Own, OnTrack, Fresh, Resolving, RefreshSteps
<1>7. call'[c] = h /\ row'[call[c].user] = call[c].seen
  BY <1>1, <1>4 DEF IInv, TypeOK, Step
<1>8. Excuses(c, call[c].user)'
  BY <1>3, <1>5, <1>7 DEF Excuses, Finished
<1>9. Connected(call[c].user)'
  BY <1>3, <1>7, <1>8 DEF Connected
<1> QED
  BY <1>1, <1>3, <1>4, <1>5, <1>6, <1>9, ReplacedRowKeeps DEF RefreshSteps

LEMMA DisconnectKeeps ==
    ASSUME IInv, NEW c \in Calls, Disconnect(c)
    PROVE  IInv'
<1>1. call[c] \in Request /\ Own(call[c]) /\ OnTrack(call[c])
      /\ call[c].step = "idle" /\ call[c].user \in Users
      /\ row \in [Users -> Integration \cup {NoRow}]
  BY DEF IInv, TypeOK, Disconnect, Request
<1> DEFINE h == [call[c] EXCEPT !.step = "done"]
<1>2. h \in Request /\ h.user = call[c].user /\ h.step = "done"
      /\ h.op = call[c].op /\ h.seen = call[c].seen /\ h.token = call[c].token
  BY <1>1 DEF Request
<1>3. /\ row' = [row EXCEPT ![call[c].user] = NoRow] /\ Step(c, h)
      /\ UNCHANGED <<lock, granted, valid, expired, available>>
  BY DEF Disconnect
<1> HIDE DEF h
<1>4. Own(h) /\ OnTrack(h) /\ Fresh(h)
  BY <1>1, <1>2 DEF Own, OnTrack, Fresh, Resolving, RefreshSteps
<1>5. call'[c] = h /\ row'[call[c].user] = NoRow
  BY <1>1, <1>3 DEF IInv, TypeOK, Step
<1>6. Connected(call[c].user)'
  BY <1>2, <1>5 DEF Connected
<1> QED
  BY <1>1, <1>2, <1>3, <1>4, <1>6, ReplacedRowKeeps DEF RefreshSteps

(* And so is what any other save makes of it. *)
LEMMA SavedRow ==
    ASSUME NEW h \in Request, NEW existing \in Integration \cup {NoRow},
           existing # NoRow => Sound(existing, h.user), Own(h),
           h.op \in {"scope", "change", "oauth", "pat"},
           h.op \in {"oauth", "pat"} => h.token # NoToken
    PROVE  Merged(h, existing) \in Integration /\ Sound(Merged(h, existing), h.user)
<1> DEFINE old == Existing(existing)
           i == Merged(h, existing)
<1>1. old \in Integration /\ Sound(old, h.user)
  BY DEF Existing, Empty, Integration, Sound
<1>2. h.token \in Tokens \cup {NoToken} /\ h.scope \in Projects \cup {NoScope}
  BY DEF Request
<1>3. h.token # NoToken => h.token \in DOMAIN granted /\ granted[h.token].user = h.user
          /\ granted[h.token].kind = (IF h.op = "pat" THEN "pat" ELSE "oauth")
  BY DEF Own
<1>4. CASE h.op = "scope"
  <2>1. i = [old EXCEPT !.scope = h.scope]
    BY <1>4 DEF Merged
  <2>2. i \in Integration /\ i.access = old.access /\ i.refresh = old.refresh
        /\ i.kind = old.kind
    BY <1>1, <1>2, <2>1 DEF Integration
  <2> HIDE DEF i, old
  <2> QED
    BY <1>1, <2>2 DEF Sound, i
<1>5. CASE h.op = "change"
  <2>1. i = [old EXCEPT !.scope = NoScope]
    BY <1>5 DEF Merged
  <2>2. i \in Integration /\ i.access = old.access /\ i.refresh = old.refresh
        /\ i.kind = old.kind
    BY <1>1, <2>1 DEF Integration
  <2> HIDE DEF i, old
  <2> QED
    BY <1>1, <2>2 DEF Sound, i
<1>6. CASE h.op = "pat"
  <2>1. i = [old EXCEPT !.access = h.token, !.kind = "pat", !.scope = NoScope]
    BY <1>6 DEF Merged
  <2>2. i \in Integration /\ i.access = h.token /\ i.refresh = old.refresh
        /\ i.kind = "pat"
    BY <1>1, <1>2, <2>1 DEF Integration
  <2> HIDE DEF i, old
  <2>3. Sound(i, h.user)
    BY <1>1, <1>3, <1>6, <2>2 DEF Sound
  <2> QED
    BY <2>2, <2>3 DEF i
<1>7. CASE h.op = "oauth"
  <2>1. i \in Integration /\ i.access = h.token /\ i.refresh \in {old.refresh, h.token}
        /\ i.kind = "oauth"
    BY <1>1, <1>2, <1>7 DEF Merged, Integration
  <2> HIDE DEF i, old
  <2>2. Sound(i, h.user)
    BY <1>1, <1>3, <1>7, <2>1 DEF Sound
  <2> QED
    BY <2>1, <2>2 DEF i
<1> QED
  BY <1>4, <1>5, <1>6, <1>7

LEMMA MergeKeeps ==
    ASSUME IInv, NEW c \in Calls, Merge(c)
    PROVE  IInv'
<1>1. call[c] \in Request /\ Own(call[c]) /\ OnTrack(call[c]) /\ call[c].step = "save"
      /\ UNCHANGED <<row, lock, granted, valid, expired, available>>
  BY DEF IInv, TypeOK, Merge
<1>2. ~Finished(c) /\ call[c].step \notin RefreshSteps
  BY <1>1 DEF Finished, RefreshSteps
<1>3. CASE Step(c, [call[c] EXCEPT !.step = "failed"])
  BY <1>1, <1>2, <1>3, FailedKeeps
<1> DEFINE i == Merged(call[c], row[call[c].user])
           h == [call[c] EXCEPT !.step = "write", !.seen = i]
<1>4. CASE Step(c, h)
  <2>1. row[call[c].user] \in Integration \cup {NoRow}
        /\ (row[call[c].user] # NoRow => Sound(row[call[c].user], call[c].user))
    BY <1>1 DEF IInv, TypeOK, Request
  <2>2. i \in Integration /\ Sound(i, call[c].user)
    BY <1>1, <2>1, SavedRow DEF OnTrack
  <2> HIDE DEF i
  <2>3. h \in Request /\ h.user = call[c].user /\ h.step = "write"
        /\ h.op = call[c].op /\ h.seen = i /\ h.token = call[c].token
    BY <1>1, <2>2 DEF Request
  <2> HIDE DEF h
  <2>4. Own(h) /\ OnTrack(h) /\ Fresh(h)
    BY <1>1, <2>2, <2>3, ConnectionsAssumption
       DEF Own, OnTrack, Fresh, Resolving, RefreshSteps
  <2> QED
    BY <1>1, <1>2, <1>4, <2>3, <2>4, StepKeepsIInv DEF RefreshSteps
<1> QED
  BY <1>3, <1>4 DEF Merge


-----------------------------------------------------------------------------
(* Connections, Plane and restarts *)

LEMMA ConnectKeeps ==
    ASSUME IInv, NEW c \in Calls, Connect(c)
    PROVE  IInv'
<1>1. call[c] \in Request /\ Own(call[c]) /\ OnTrack(call[c]) /\ call[c].step = "idle"
      /\ call[c].op \in {"oauth", "pat"} /\ call[c].user \in Users
      /\ UNCHANGED <<row, lock, expired, available>>
  BY DEF IInv, TypeOK, Connect, Request
<1>2. PICK omits \in SUBSET {"refresh_token", "expires_in"} :
        /\ Grants(c, call[c].op)
        /\ valid' \in {valid, valid \cup {NewToken}}
        /\ Step(c, [call[c] EXCEPT !.step = "save", !.token = NewToken, !.omits = omits])
  BY DEF Connect
<1>3. [user |-> call[c].user, kind |-> call[c].op] \in Grant
  BY <1>1 DEF Grant
<1>4. /\ NewToken \in Tokens
      /\ granted' \in Seq(Grant) /\ Len(granted') <= MaxGrants
      /\ DOMAIN granted' = DOMAIN granted \cup {NewToken}
      /\ granted'[NewToken] = [user |-> call[c].user, kind |-> call[c].op]
      /\ \A t \in DOMAIN granted : granted'[t] = granted[t]
  BY <1>2, <1>3, GrantKeeps DEF Grants
<1>5. NewToken # NoToken
  BY <1>4, StepsDiffer
<1> DEFINE h == [call[c] EXCEPT !.step = "save", !.token = NewToken, !.omits = omits]
<1>6. h \in Request /\ h.user = call[c].user /\ h.step = "save" /\ h.op = call[c].op
      /\ h.seen = call[c].seen /\ h.token = NewToken
  BY <1>1, <1>4 DEF Request
<1>7. call' = [call EXCEPT ![c] = h]
  BY <1>2 DEF Step
<1> HIDE DEF h
<1>8. call'[c] = h /\ \A d \in Calls \ {c} : call'[d] = call[d]
  BY <1>7 DEF IInv, TypeOK
<1>9. TypeOK' /\ (valid \subseteq DOMAIN granted)'
  BY <1>1, <1>2, <1>4, <1>6, <1>7 DEF IInv, TypeOK
<1>10. LockedWhileRefreshing' /\ LocksAreOwn'
  BY <1>1, <1>6, <1>8
     DEF IInv, TypeOK, LockedWhileRefreshing, LocksAreOwn, Refreshing, RefreshSteps
<1>11. ASSUME NEW u \in Users, row'[u] # NoRow PROVE Sound(row[u], u)'
  BY <1>1, <1>4, <1>11 DEF IInv, Sound
<1>12. ASSUME NEW d \in Calls PROVE (Own(call[d]) /\ OnTrack(call[d]) /\ Fresh(call[d]))'
  <2>1. call[d] \in Request /\ Own(call[d]) /\ OnTrack(call[d]) /\ Fresh(call[d])
    BY DEF IInv, TypeOK
  <2>2. call'[d].seen # NoRow => Sound(call[d].seen, call[d].user)'
    <3>1. call'[d].seen = call[d].seen /\ call'[d].user = call[d].user
      BY <1>6, <1>8
    <3> QED
      BY <1>4, <2>1, <3>1 DEF Own, Sound
  <2>3. CASE d = c
    <3>1. Own(call[d])'
      BY <1>1, <1>4, <1>6, <1>8, <2>2, <2>3 DEF Own
    <3> QED
      BY <1>1, <1>5, <1>6, <1>8, <2>3, <3>1 DEF OnTrack, Fresh, Resolving, RefreshSteps
  <2>4. CASE d # c
    <3>1. call'[d] = call[d]
      BY <1>8, <2>4
    <3>2. Own(call[d])'
      BY <1>4, <2>1, <2>2, <3>1 DEF Own
    <3> QED
      BY <1>2, <2>1, <3>1, <3>2 DEF OnTrack, Fresh
  <2> QED
    BY <2>3, <2>4
<1>13. ASSUME NEW u \in Users PROVE Connected(u)'
  <2>1. ASSUME NEW d \in Calls, Excuses(d, u) PROVE Excuses(d, u)'
    BY <1>1, <1>8, <2>1 DEF Excuses, Finished
  <2> QED
    BY <1>1, <1>2, <2>1 DEF IInv, Connected
<1> QED
  BY <1>9, <1>10, <1>11, <1>12, <1>13 DEF IInv

(* Only expired or available change. *)
LEMMA OutsideKeeps ==
    ASSUME IInv, UNCHANGED <<row, lock, call, granted, valid>>,
           expired' \subseteq Tokens, available' \subseteq Projects
    PROVE  IInv'
<1>1. TypeOK' /\ LockedWhileRefreshing' /\ LocksAreOwn' /\ (valid \subseteq DOMAIN granted)'
  BY DEF IInv, TypeOK, LockedWhileRefreshing, LocksAreOwn, Refreshing
<1>2. \A u \in Users : row'[u] # NoRow => Sound(row[u], u)'
  BY DEF IInv, Sound
<1>3. \A d \in Calls : (Own(call[d]) /\ OnTrack(call[d]) /\ Fresh(call[d]))'
  BY DEF IInv, Own, Sound, OnTrack, Fresh
<1>4. \A u \in Users : Connected(u)'
  BY DEF IInv, Connected, Excuses, Finished
<1> QED
  BY <1>1, <1>2, <1>3, <1>4 DEF IInv

LEMMA RestartKeeps ==
    ASSUME IInv, Restart
    PROVE  IInv'
<1>1. /\ lock' = [u \in Users |-> NoCall]
      /\ call' = [c \in Calls |->
             IF call[c].step = "idle" \/ Finished(c) THEN call[c]
             ELSE [call[c] EXCEPT !.step = "failed"]]
      /\ UNCHANGED <<row, granted, valid, expired, available>>
  BY DEF Restart
<1>2. ASSUME NEW c \in Calls
      PROVE  /\ call'[c] \in Request /\ call'[c].user = call[c].user
             /\ call'[c].op = call[c].op /\ call'[c].seen = call[c].seen
             /\ call'[c].token = call[c].token
             /\ IF call[c].step \in {"idle", "done"} THEN call'[c].step = call[c].step
                ELSE call'[c].step = "failed"
  <2>1. call[c] \in Request
    BY DEF IInv, TypeOK
  <2> QED
    BY <1>1, <2>1 DEF Request, Finished
<1>3. call' \in [Calls -> Request]
  BY <1>1, <1>2
<1>4. TypeOK' /\ (valid \subseteq DOMAIN granted)'
  BY <1>1, <1>3 DEF IInv, TypeOK
<1>5. \A c \in Calls : call'[c].user \in Users
  BY <1>2 DEF Request
<1>6. LockedWhileRefreshing' /\ LocksAreOwn'
  BY <1>1, <1>2, <1>5, ConnectionsAssumption
     DEF LockedWhileRefreshing, LocksAreOwn, Refreshing, RefreshSteps
<1>7. \A u \in Users : row'[u] # NoRow => Sound(row[u], u)'
  BY <1>1 DEF IInv, Sound
<1>8. ASSUME NEW c \in Calls PROVE (Own(call[c]) /\ OnTrack(call[c]) /\ Fresh(call[c]))'
  <2>1. Own(call[c])
    BY DEF IInv
  <2>2. Own(call[c])'
    BY <1>1, <1>2, <2>1 DEF Own, Sound
  <2> QED
    BY <1>2, <2>2 DEF OnTrack, Fresh, Resolving, RefreshSteps
<1>9. ASSUME NEW u \in Users PROVE Connected(u)'
  <2>1. ASSUME NEW c \in Calls, Excuses(c, u) PROVE Excuses(c, u)'
    BY <1>1, <1>2, <2>1 DEF Excuses, Finished
  <2> QED
    BY <1>1, <2>1 DEF IInv, Connected
<1> QED
  BY <1>4, <1>6, <1>7, <1>8, <1>9 DEF IInv

(* Every step keeps the invariant. *)
LEMMA IInvNext ==
    ASSUME IInv, [Next]_vars
    PROVE  IInv'
<1>1. TypeOK
  BY DEF IInv
<1>2. ASSUME NEW c \in Calls, Begin(c) \/ Read(c) \/ Decide(c) PROVE IInv'
  BY <1>2, BeginKeeps, ReadKeeps, DecideKeeps
<1>3. ASSUME NEW c \in Calls, RefreshAnswered(c) \/ RefreshFails(c) \/ RefreshLost(c)
      PROVE  IInv'
  BY <1>3, RefreshAnsweredKeeps, RefreshFailsKeeps, RefreshLostKeeps
<1>4. ASSUME NEW c \in Calls, MergeRefreshed(c) \/ StoreRefreshed(c) \/ Reread(c)
      PROVE  IInv'
  BY <1>4, MergeRefreshedKeeps, StoreRefreshedKeeps, RereadKeeps
<1>5. ASSUME NEW c \in Calls,
             List(c) \/ Connect(c) \/ Merge(c) \/ Write(c) \/ Disconnect(c) \/ Fail(c)
      PROVE  IInv'
  BY <1>5, ListKeeps, ConnectKeeps, MergeKeeps, WriteKeeps, DisconnectKeeps, FailKeeps
<1>6. ASSUME NEW t \in Tokens, Expire(t) PROVE IInv'
  BY <1>1, <1>6, OutsideKeeps DEF Expire, TypeOK
<1>7. ASSUME NEW p \in Projects, RemoveProject(p) PROVE IInv'
  BY <1>1, <1>7, OutsideKeeps DEF RemoveProject, TypeOK
<1>8. CASE Restart
  BY <1>8, RestartKeeps
<1>9. CASE UNCHANGED vars
  BY <1>1, <1>9, OutsideKeeps DEF vars, TypeOK
<1> QED
  BY <1>2, <1>3, <1>4, <1>5, <1>6, <1>7, <1>8, <1>9 DEF Next

-----------------------------------------------------------------------------
(* What holds of every connection *)

(* The invariant holds in every behaviour. *)
LEMMA Invariance == Spec => []IInv
BY IInvInit, IInvNext, PTL DEF Spec

(* Rows, locks, requests and tokens stay within their types.               *)
THEOREM PlaneTypeCorrect == Spec => []TypeOK
<1>1. IInv => TypeOK
  BY DEF IInv
<1> QED
  BY <1>1, Invariance, PTL

(* planeCredentialService.js 64-90: for any number of requests and users,  *)
(* the lock of a user is held exactly while one of them refreshes.         *)
THEOREM LocksBelongToRefreshes == Spec => []LockedWhileRefreshing
<1>1. IInv => LockedWhileRefreshing
  BY DEF IInv
<1> QED
  BY <1>1, Invariance, PTL

(* planeCredentialService.js 17-21: no overlap of saves, refreshes and     *)
(* restarts gives a user another user's tokens, or a token the wrong type. *)
THEOREM CredentialsAreOwn == Spec => []CredentialsStayWithTheirUser
<1>1. IInv => CredentialsStayWithTheirUser
  BY DEF IInv, Own, Sound, SoundFor, CredentialsStayWithTheirUser
<1> QED
  BY <1>1, Invariance, PTL

(* Only a refresh under way, one that failed before it stored its token,   *)
(* or a save that wrote back what it had read leaves a row with a refresh  *)
(* token that Plane no longer accepts.                                     *)
THEOREM StoredTokensAreUsable == Spec => []RefreshTokenUsable
<1>1. ASSUME IInv PROVE RefreshTokenUsable
  <2>1. ASSUME NEW u \in Users, NEW c \in Calls, Excuses(c, u)
        PROVE  \/ WritesBack(c, u)
               \/ /\ call[c].user = u /\ call[c].token # NoToken
                  /\ Refreshing(c) \/ call[c].step = "failed"
    BY <2>1 DEF Excuses, WritesBack, Refreshing, RefreshSteps
  <2> QED
    BY <1>1, <2>1 DEF IInv, Connected, RefreshTokenUsable
<1> QED
  BY <1>1, Invariance, PTL
=============================================================================
