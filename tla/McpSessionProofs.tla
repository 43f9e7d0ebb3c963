--------------------------- MODULE McpSessionProofs ---------------------------
(* Proofs about McpSession, for every value of its constants. *)
EXTENDS McpSession, TLAPS

-----------------------------------------------------------------------------
(* The inductive invariant: a scope is initialised once at a time and only *)
(* while it has no session, so a session once stored is the one every      *)
(* later request of the scope presents.                                    *)

(* The map names the call that runs the initialisation of a scope. *)
OneInitialization ==
    \A c \in Callers, s \in Scopes :
        initializations[s] = c <=>
            step[c] \in Initializing /\ Scope(user[c]) = s

InitializedOnce ==
    \A c \in Callers : step[c] = "initialize" => sessions[Scope(user[c])] = None

PresentsTheStored ==
    \A c \in Callers :
        presented[c] # None =>
            step[c] # "idle" /\ presented[c] = sessions[Scope(user[c])]

StoredWereIssued ==
    \A s \in Scopes :
        sessions[s] # None =>
            /\ issued[sessions[s]] # None
            /\ Name = "hrm" => issued[sessions[s]] = s

(* How far a handshake with a server that uses sessions has got. *)
Handshake ==
    stateful =>
        \A c \in Callers :
            /\ step[c] \in {"initializeBody", "notify", "notifyBody"} =>
                   sessions[Scope(user[c])] # None
            /\ step[c] \in {"notify", "notifyBody"} =>
                   presented[c] = sessions[Scope(user[c])]
            /\ step[c] = "notifyBody" =>
                   (presented[c] \in known => presented[c] \in greeted \cup refused)

IInv ==
    /\ TypeOK
    /\ OneInitialization
    /\ InitializedOnce
    /\ PresentsTheStored
    /\ StoredWereIssued
    /\ Handshake
    /\ HandshakePrecedesOwnRequest

-----------------------------------------------------------------------------
(* Helpers *)

LEMMA ScopeOfUser == \A u \in Users : Scope(u) \in Scopes
  BY DEF Scopes

LEMMA Busy ==
    ASSUME TypeOK, NEW c \in Callers, step[c] # "idle"
    PROVE  user[c] \in Users /\ Scope(user[c]) \in Scopes
  BY ScopeOfUser DEF TypeOK

LEMMA StepKinds ==
    /\ "idle" \notin Fetching \cup Reading /\ "join" \notin Fetching \cup Reading
    /\ "idle" \notin Initializing /\ "join" \notin Initializing
    /\ Initializing \subseteq Fetching \cup Reading
    /\ "request" \notin Initializing /\ "requestBody" \notin Initializing
    /\ Fetching \cap Reading = {}
  BY DEF Fetching, Reading, Initializing

(* What the server may do meanwhile: it forgets, greets, and creates       *)
(* sessions under new ids.                                                 *)
ServerStep ==
    /\ stateful' = stateful
    /\ issued' \in [SessionIds -> Users \cup {None}]
    /\ known' \subseteq SessionIds /\ greeted' \cup refused' \subseteq SessionIds
    /\ greeted \cup refused \subseteq greeted' \cup refused'
    /\ \A i \in SessionIds :
           issued[i] # None => issued'[i] = issued[i] /\ (i \in known' => i \in known)

LEMMA HandleEffect ==
    ASSUME TypeOK, NEW c \in Callers, NEW id \in SessionIds \cup {None}, Handle(c, id)
    PROVE  /\ ServerStep
           /\ step[c] \in Fetching
           /\ step[c] = "initialize" =>
                  /\ id # None => issued'[id] = user[c]
                  /\ stateful => id # None
           /\ step[c] \in {"notify", "request"} => id \in {presented[c], None}
           /\ step[c] = "notify" =>
                  (presented[c] \in known' => presented[c] \in greeted' \cup refused')
<1> USE DEF TypeOK
<1>1. CASE step[c] = "initialize" /\ id \in SessionIds /\ CreateSession(user[c], id)
  <2>1. user[c] \in Users
    BY <1>1
  <2>2. issued' = [issued EXCEPT ![id] = user[c]] /\ issued[id] = None
        /\ known' = known \cup {id} /\ UNCHANGED <<stateful, greeted, refused>>
    BY <1>1 DEF CreateSession
  <2> QED
    BY <1>1, <2>1, <2>2, NoneAssumption DEF ServerStep, Fetching
<1>2. CASE step[c] = "initialize" /\ id = None /\ ~stateful /\ UNCHANGED server
  BY <1>2 DEF ServerStep, server, Fetching
<1>3. CASE /\ step[c] = "notify" /\ id \in {presented[c]} \cap (known \cup {None})
           /\ Greet(presented[c])
  BY <1>3 DEF ServerStep, Greet, Fetching
<1>4. CASE /\ step[c] = "request" /\ id \in {presented[c]} \cap (known \cup {None})
           /\ UNCHANGED server
  BY <1>4 DEF ServerStep, server, Fetching
<1>5. CASE /\ step[c] \in {"notify", "request"} /\ id = None
           /\ presented[c] \notin known /\ UNCHANGED server
  BY <1>5 DEF ServerStep, server, Fetching
<1> QED
  BY <1>1, <1>2, <1>3, <1>4, <1>5 DEF Handle

LEMMA NothingIsAServerStep == TypeOK /\ UNCHANGED server => ServerStep
  BY DEF TypeOK, ServerStep, server

LEMMA StoredStillIssued ==
    ASSUME IInv, ServerStep, UNCHANGED sessions
    PROVE  StoredWereIssued'
  BY DEF IInv, TypeOK, ServerStep, StoredWereIssued

-----------------------------------------------------------------------------
LEMMA InitIInv == Init => IInv
  BY NoneAssumption
     DEF Init, IInv, TypeOK, OneInitialization, InitializedOnce, PresentsTheStored,
         StoredWereIssued, Handshake, HandshakePrecedesOwnRequest, Initializing

-----------------------------------------------------------------------------
(* A step of the server alone *)
LEMMA ServerKeeps ==
    ASSUME IInv, ServerStep, UNCHANGED <<sessions, initializations, calls>>
    PROVE  IInv'
<1> USE DEF IInv, TypeOK, calls
<1>1. TypeOK'
  BY DEF ServerStep
<1>2. OneInitialization' /\ InitializedOnce' /\ PresentsTheStored'
  BY DEF OneInitialization, InitializedOnce, PresentsTheStored
<1>3. StoredWereIssued'
  BY StoredStillIssued
<1>4. ASSUME NEW c \in Callers, presented[c] # None, presented[c] \in known',
             presented[c] \in known => presented[c] \in greeted \cup refused
      PROVE  presented[c] \in greeted' \cup refused'
  <2>1. presented[c] \in SessionIds /\ step[c] # "idle"
        /\ presented[c] = sessions[Scope(user[c])]
    BY <1>4 DEF PresentsTheStored
  <2>2. issued[presented[c]] # None
    BY <1>4, <2>1, Busy DEF StoredWereIssued
  <2> QED
    BY <1>4, <2>1, <2>2 DEF ServerStep
<1>5. Handshake'
  <2> SUFFICES ASSUME stateful', NEW c \in Callers
      PROVE  /\ step[c] \in {"initializeBody", "notify", "notifyBody"} =>
                    sessions[Scope(user[c])] # None
             /\ step[c] \in {"notify", "notifyBody"} =>
                    presented[c] = sessions[Scope(user[c])]
             /\ step[c] = "notifyBody" =>
                    (presented[c] \in known' => presented[c] \in greeted' \cup refused')
    BY DEF Handshake
  <2>1. stateful
    BY DEF ServerStep
  <2> QED
    BY <1>4, <2>1 DEF Handshake
<1>6. HandshakePrecedesOwnRequest'
  <2>1. stateful' = stateful
    BY DEF ServerStep
  <2> QED
    BY <1>4, <2>1 DEF HandshakePrecedesOwnRequest
<1> QED
  BY <1>1, <1>2, <1>3, <1>5, <1>6

(* A call begins. *)
LEMMA CallKeeps ==
    ASSUME IInv, NEW c \in Callers, NEW u \in Users, Call(c, u)
    PROVE  IInv'
<1> DEFINE s == Scope(u)
<1> USE DEF IInv, TypeOK
<1>1. s \in Scopes /\ step[c] = "idle" /\ user[c] = None /\ presented[c] = None
  BY ScopeOfUser DEF Call, PresentsTheStored
<1>2. /\ Start(s) \in {"request", "join", "initialize"}
      /\ Start(s) = "request" <=> sessions[s] # None
      /\ Start(s) = "join" => initializations[s] # None
      /\ Start(s) = "initialize" => initializations[s] = None
  BY DEF Start
<1>3. /\ step' = [step EXCEPT ![c] = Start(s)] /\ user' = [user EXCEPT ![c] = u]
      /\ presented' = [presented EXCEPT ![c] = sessions[s]]
      /\ waited' = [waited EXCEPT ![c] = (Start(s) # "request")]
      /\ initializations' = IF Start(s) = "initialize"
                            THEN [initializations EXCEPT ![s] = c] ELSE initializations
      /\ UNCHANGED <<stateful, issued, known, greeted, refused, sessions>>
  BY DEF Call, server
<1> HIDE DEF s
<1>4. \A d \in Callers \ {c} :
        step'[d] = step[d] /\ user'[d] = user[d]
        /\ presented'[d] = presented[d] /\ waited'[d] = waited[d]
  BY <1>3
<1>5. step'[c] = Start(s) /\ user'[c] = u /\ presented'[c] = sessions[s]
      /\ (waited'[c] <=> Start(s) # "request")
  BY <1>3
<1>6. s = Scope(u)
  BY DEF s
<1>7. TypeOK'
  <2>1. \A d \in Callers : step'[d] = "idle" <=> user'[d] = None
    BY <1>2, <1>4, <1>5, NoneAssumption
  <2>2. \A d \in Callers :
           step'[d] = "join" => initializations'[Scope(user'[d])] # None
    BY <1>1, <1>2, <1>3, <1>4, <1>5, <1>6, Busy, NoneAssumption
  <2>3. /\ step' \in [Callers -> Fetching \cup Reading \cup {"idle", "join"}]
        /\ user' \in [Callers -> Users \cup {None}]
        /\ presented' \in [Callers -> SessionIds \cup {None}]
        /\ waited' \in [Callers -> BOOLEAN]
        /\ initializations' \in [Scopes -> Callers \cup {None}]
    BY <1>1, <1>2, <1>3 DEF Fetching
  <2> QED
    BY <1>3, <2>1, <2>2, <2>3
<1>8. OneInitialization'
  BY <1>1, <1>2, <1>3, <1>4, <1>5, <1>6, NoneAssumption
     DEF OneInitialization, Initializing
<1>9. InitializedOnce' /\ PresentsTheStored'
  BY <1>1, <1>2, <1>3, <1>4, <1>5, <1>6 DEF InitializedOnce, PresentsTheStored
<1>10. StoredWereIssued'
  BY <1>3 DEF StoredWereIssued
<1>11. Handshake' /\ HandshakePrecedesOwnRequest'
  BY <1>2, <1>3, <1>4, <1>5 DEF Handshake, HandshakePrecedesOwnRequest
<1> QED
  BY <1>7, <1>8, <1>9, <1>10, <1>11

-----------------------------------------------------------------------------
(* An initialisation settles, or a request returns. *)

LEMMA SettleKeeps ==
    ASSUME IInv, ServerStep, UNCHANGED sessions,
           NEW c \in Callers, step[c] \in Initializing,
           NEW ok \in BOOLEAN, Settle(c, ok), ok => step[c] = "notifyBody"
    PROVE  IInv'
<1> DEFINE s == Scope(user[c])
<1> USE DEF IInv, TypeOK
<1>1. /\ step[c] # "idle" /\ user[c] \in Users /\ s \in Scopes
      /\ initializations[s] = c
  BY Busy, StepKinds DEF OneInitialization
<1>2. \A d \in Callers \ Sharers(c) :
        /\ step'[d] = step[d] /\ user'[d] = user[d]
        /\ presented'[d] = presented[d] /\ waited'[d] = waited[d]
        /\ step[d] = "join" \/ step[d] \in Initializing => Scope(user[d]) # s
  <2>1. \A d \in Callers \ {c} : step[d] \in Initializing => Scope(user[d]) # s
    BY <1>1, Busy, StepKinds DEF OneInitialization
  <2> QED
    BY <2>1 DEF Settle, Sharers
<1>3. \A d \in Sharers(c) : d \in Callers /\ Scope(user[d]) = s /\ step[d] # "idle"
  BY <1>1 DEF Sharers
<1>4. \A d \in Sharers(c) :
        /\ step'[d] = IF ok THEN "request" ELSE "idle"
        /\ user'[d] = IF ok THEN user[d] ELSE None
        /\ presented'[d] = IF ok THEN sessions[s] ELSE None
        /\ waited'[d] = IF ok THEN waited[d] ELSE FALSE
  BY <1>3 DEF Settle
<1>5. /\ initializations' = [initializations EXCEPT ![s] = None]
      /\ step' \in [Callers -> Fetching \cup Reading \cup {"idle", "join"}]
      /\ user' \in [Callers -> Users \cup {None}]
      /\ presented' \in [Callers -> SessionIds \cup {None}]
      /\ waited' \in [Callers -> BOOLEAN]
  BY <1>1 DEF Settle, Fetching
<1> HIDE DEF s
<1>6. TypeOK'
  <2>1. \A d \in Callers : step'[d] = "idle" <=> user'[d] = None
    BY <1>2, <1>3, <1>4
  <2>2. \A d \in Callers :
           step'[d] = "join" => initializations'[Scope(user'[d])] # None
    <3> SUFFICES ASSUME NEW d \in Callers, step'[d] = "join"
                 PROVE  initializations'[Scope(user'[d])] # None
      OBVIOUS
    <3>1. d \notin Sharers(c)
      BY <1>4
    <3>2. step[d] = "join" /\ user'[d] = user[d] /\ Scope(user[d]) # s
      BY <1>2, <3>1
    <3>3. Scope(user[d]) \in Scopes /\ initializations[Scope(user[d])] # None
      BY <3>2, Busy
    <3> QED
      BY <1>5, <3>2, <3>3
  <2> QED
    BY <1>1, <1>5, <2>1, <2>2 DEF ServerStep
<1>7. OneInitialization'
  <2> SUFFICES ASSUME NEW d \in Callers, NEW t \in Scopes
               PROVE  initializations'[t] = d <=>
                        step'[d] \in Initializing /\ Scope(user'[d]) = t
    BY DEF OneInitialization
  <2>1. CASE d \in Sharers(c)
    <3>1. step'[d] \notin Initializing
      BY <1>4, <2>1, StepKinds
    <3>2. initializations'[t] # d
      BY <1>1, <1>3, <1>5, <2>1, NoneAssumption DEF OneInitialization, Sharers, Initializing
    <3> QED
      BY <3>1, <3>2
  <2>2. CASE d \notin Sharers(c)
    BY <1>1, <1>2, <1>5, <2>2, NoneAssumption DEF OneInitialization
  <2> QED
    BY <2>1, <2>2
<1>8. InitializedOnce' /\ PresentsTheStored'
  <2>1. InitializedOnce'
    BY <1>2, <1>4 DEF InitializedOnce
  <2>2. PresentsTheStored'
    <3> SUFFICES ASSUME NEW d \in Callers, presented'[d] # None
                 PROVE  step'[d] # "idle" /\ presented'[d] = sessions[Scope(user'[d])]
      BY DEF PresentsTheStored
    <3>1. CASE d \in Sharers(c)
      BY <1>3, <1>4, <3>1
    <3>2. CASE d \notin Sharers(c)
      BY <1>2, <3>2 DEF PresentsTheStored
    <3> QED
      BY <3>1, <3>2
  <2> QED
    BY <2>1, <2>2
<1>9. StoredWereIssued'
  BY StoredStillIssued
<1>10. \A i \in SessionIds :
         issued[i] # None /\ (i \in known => i \in greeted \cup refused) =>
             (i \in known' => i \in greeted' \cup refused')
  BY DEF ServerStep
<1>11. \A d \in Callers : presented[d] # None => issued[presented[d]] # None
  BY Busy DEF PresentsTheStored, StoredWereIssued
<1>12. stateful' = stateful
  BY DEF ServerStep
<1>13. Handshake'
  <2> SUFFICES ASSUME stateful, NEW d \in Callers
      PROVE  /\ step'[d] \in {"initializeBody", "notify", "notifyBody"} =>
                    sessions[Scope(user'[d])] # None
             /\ step'[d] \in {"notify", "notifyBody"} =>
                    presented'[d] = sessions[Scope(user'[d])]
             /\ step'[d] = "notifyBody" =>
                    (presented'[d] \in known' => presented'[d] \in greeted' \cup refused')
    BY <1>12 DEF Handshake
  <2>1. CASE d \in Sharers(c)
    BY <1>4, <2>1
  <2>2. CASE d \notin Sharers(c)
    BY <1>2, <1>10, <1>11, <2>2 DEF Handshake
  <2> QED
    BY <2>1, <2>2
<1>14. HandshakePrecedesOwnRequest'
  <2> SUFFICES ASSUME stateful, NEW d \in Callers, waited'[d],
                      step'[d] \in {"request", "requestBody"}
      PROVE  /\ presented'[d] # None
             /\ presented'[d] \in known' => presented'[d] \in greeted' \cup refused'
    BY <1>12 DEF HandshakePrecedesOwnRequest
  <2>1. CASE d \in Sharers(c)
    <3>1. ok /\ step[c] = "notifyBody" /\ presented'[d] = sessions[s]
      BY <1>4, <2>1
    <3>2. /\ presented[c] = sessions[s] /\ presented[c] # None
          /\ presented[c] \in known => presented[c] \in greeted \cup refused
      BY <3>1 DEF Handshake, s
    <3> QED
      BY <1>10, <1>11, <3>1, <3>2
  <2>2. CASE d \notin Sharers(c)
    BY <1>2, <1>10, <1>11, <2>2 DEF HandshakePrecedesOwnRequest
  <2> QED
    BY <2>1, <2>2
<1> QED
  BY <1>6, <1>7, <1>8, <1>9, <1>13, <1>14

(* A step of one call that begins and ends no initialisation. *)
LEMMA OwnStepKeeps ==
    ASSUME IInv, ServerStep, UNCHANGED <<sessions, initializations>>,
           NEW c \in Callers, step[c] \in Fetching \cup Reading,
           \A d \in Callers \ {c} :
               /\ step'[d] = step[d] /\ user'[d] = user[d]
               /\ presented'[d] = presented[d] /\ waited'[d] = waited[d],
           step' \in [Callers -> Fetching \cup Reading \cup {"idle", "join"}],
           user' \in [Callers -> Users \cup {None}],
           presented' \in [Callers -> SessionIds \cup {None}],
           waited' \in [Callers -> BOOLEAN],
           \/ /\ step[c] \in {"request", "requestBody"}
              /\ step'[c] = "idle" /\ user'[c] = None /\ presented'[c] = None
           \/ /\ step[c] = "initializeBody" /\ step'[c] = "notify"
              /\ user'[c] = user[c] /\ presented'[c] = sessions[Scope(user[c])]
           \/ /\ step[c] = "notify" /\ step'[c] = "errorBody"
              /\ user'[c] = user[c] /\ presented'[c] = presented[c]
    PROVE  IInv'
<1> USE DEF IInv, TypeOK
<1>1. user[c] \in Users /\ Scope(user[c]) \in Scopes /\ user[c] # None
  BY Busy, StepKinds
<1>2. TypeOK'
  BY <1>1, NoneAssumption DEF ServerStep
<1>3. OneInitialization'
  BY <1>1 DEF OneInitialization, Initializing
<1>4. InitializedOnce'
  BY DEF InitializedOnce
<1>5. PresentsTheStored'
  BY DEF PresentsTheStored
<1>6. StoredWereIssued'
  BY StoredStillIssued
<1>7. \A i \in SessionIds :
         issued[i] # None /\ (i \in known => i \in greeted \cup refused) =>
             (i \in known' => i \in greeted' \cup refused')
  BY DEF ServerStep
<1>8. \A d \in Callers : presented[d] # None => issued[presented[d]] # None
  BY Busy DEF PresentsTheStored, StoredWereIssued
<1>9. stateful' = stateful
  BY DEF ServerStep
<1>10. Handshake'
  <2> SUFFICES ASSUME stateful, NEW d \in Callers
      PROVE  /\ step'[d] \in {"initializeBody", "notify", "notifyBody"} =>
                    sessions[Scope(user'[d])] # None
             /\ step'[d] \in {"notify", "notifyBody"} =>
                    presented'[d] = sessions[Scope(user'[d])]
             /\ step'[d] = "notifyBody" =>
                    (presented'[d] \in known' => presented'[d] \in greeted' \cup refused')
    BY <1>9 DEF Handshake
  <2>1. CASE d = c
    BY <2>1 DEF Handshake
  <2>2. CASE d # c
    BY <1>7, <1>8, <2>2 DEF Handshake
  <2> QED
    BY <2>1, <2>2
<1>11. HandshakePrecedesOwnRequest'
  BY <1>7, <1>8, <1>9 DEF HandshakePrecedesOwnRequest
<1> QED
  BY <1>2, <1>3, <1>4, <1>5, <1>6, <1>10, <1>11

LEMMA FailKeeps ==
    ASSUME IInv, ServerStep, UNCHANGED sessions,
           NEW c \in Callers, step[c] \in Fetching \cup Reading, Fail(c)
    PROVE  IInv'
<1>1. CASE step[c] \in Initializing
  BY <1>1, SettleKeeps DEF Fail
<1>2. CASE step[c] \notin Initializing
  <2>1. step[c] \in {"request", "requestBody"} /\ Return(c)
    BY <1>2 DEF Fail, Fetching, Reading, Initializing
  <2> QED
    BY <2>1, OwnStepKeeps DEF Return, IInv, TypeOK
<1> QED
  BY <1>1, <1>2

LEMMA AcceptKeeps ==
    ASSUME IInv, ServerStep, UNCHANGED sessions,
           NEW c \in Callers, step[c] \in Reading \ {"errorBody"}, Accept(c)
    PROVE  IInv'
<1>1. CASE step[c] = "initializeBody"
  <2>1. SendNotification(c) /\ Scope(user[c]) \in Scopes
    BY <1>1, Busy DEF Accept, IInv
  <2>2. presented' \in [Callers -> SessionIds \cup {None}]
        /\ step' \in [Callers -> Fetching \cup Reading \cup {"idle", "join"}]
    BY <2>1 DEF SendNotification, IInv, TypeOK, Fetching
  <2> QED
    BY <1>1, <2>1, <2>2, OwnStepKeeps DEF SendNotification, IInv, TypeOK
<1>2. CASE step[c] = "notifyBody"
  <2>1. Settle(c, TRUE) /\ step[c] \in Initializing
    BY <1>2 DEF Accept, Initializing
  <2> QED
    BY <1>2, <2>1, SettleKeeps
<1>3. CASE step[c] \notin {"initializeBody", "notifyBody"}
  <2>1. step[c] = "requestBody" /\ Return(c)
    BY <1>3 DEF Accept, Reading
  <2> QED
    BY <2>1, OwnStepKeeps DEF Return, IInv, TypeOK
<1> QED
  BY <1>1, <1>2, <1>3

(* The notification is answered with an error that has a body. *)
LEMMA RefuseKeeps ==
    ASSUME IInv, NEW c \in Callers, Refuse(c)
    PROVE  IInv'
<1>1. ServerStep
  BY NothingIsAServerStep DEF Refuse, IInv
<1>2. step' \in [Callers -> Fetching \cup Reading \cup {"idle", "join"}]
  BY DEF Refuse, IInv, TypeOK, Reading
<1>3. step[c] \in Fetching
  BY DEF Refuse, Fetching
<1> QED
  BY <1>1, <1>2, <1>3, OwnStepKeeps DEF Refuse, IInv, TypeOK

-----------------------------------------------------------------------------
(* The headers of an answer arrive. *)

LEMMA StoredOnce ==
    ASSUME IInv, NEW c \in Callers, NEW id \in SessionIds \cup {None}, Handle(c, id)
    PROVE  /\ Stored(c, id) \in [Scopes -> SessionIds \cup {None}]
           /\ \A t \in Scopes :
                  \/ Stored(c, id)[t] = sessions[t]
                  \/ /\ step[c] = "initialize" /\ t = Scope(user[c])
                     /\ sessions[t] = None /\ Stored(c, id)[t] = id /\ id # None
<1> USE DEF IInv, TypeOK
<1>1. /\ step[c] \in Fetching /\ Scope(user[c]) \in Scopes
      /\ step[c] \in {"notify", "request"} => id \in {presented[c], None}
  BY HandleEffect, Busy, StepKinds
<1>2. CASE step[c] = "initialize"
  BY <1>1, <1>2 DEF Stored, InitializedOnce
<1>3. CASE step[c] # "initialize"
  <2>1. id \in {presented[c], None}
    BY <1>1, <1>3 DEF Fetching
  <2>2. id # None => id = sessions[Scope(user[c])]
    BY <2>1 DEF PresentsTheStored
  <2> QED
    BY <1>1, <2>2 DEF Stored
<1> QED
  BY <1>2, <1>3

LEMMA HeadersKeep ==
    ASSUME IInv, NEW c \in Callers, Headers(c)
    PROVE  IInv'
<1> USE DEF IInv, TypeOK
<1>1. PICK id \in SessionIds \cup {None} : Handle(c, id) /\ sessions' = Stored(c, id)
  BY DEF Headers
<1> DEFINE s == Scope(user[c])
<1>2. /\ ServerStep /\ step[c] \in Fetching
      /\ step[c] = "initialize" =>
             (id # None => issued'[id] = user[c]) /\ (stateful => id # None)
      /\ step[c] = "notify" => (presented[c] \in known' => presented[c] \in greeted' \cup refused')
  BY <1>1, HandleEffect
<1>3. user[c] \in Users /\ s \in Scopes
  BY <1>2, Busy, StepKinds
<1>4. /\ step' = [step EXCEPT ![c] = BodyStep[step[c]]]
      /\ UNCHANGED <<initializations, user, presented, waited>>
  BY DEF Headers
<1>5. /\ step[c] = "initialize" => step'[c] = "initializeBody"
      /\ step[c] = "notify" => step'[c] = "notifyBody"
      /\ step[c] = "request" => step'[c] = "requestBody"
      /\ \A d \in Callers \ {c} : step'[d] = step[d]
  BY <1>2, <1>4 DEF BodyStep, Fetching
<1>6. /\ sessions' \in [Scopes -> SessionIds \cup {None}]
      /\ \A t \in Scopes :
             \/ sessions'[t] = sessions[t]
             \/ /\ step[c] = "initialize" /\ t = s
                /\ sessions[t] = None /\ sessions'[t] = id /\ id # None
  BY <1>1, StoredOnce
<1>7. stateful /\ step[c] = "initialize" => sessions'[s] # None
  <2> SUFFICES ASSUME stateful, step[c] = "initialize" PROVE sessions'[s] # None
    OBVIOUS
  <2>1. id # None
    BY <1>2
  <2> QED
    BY <1>1, <1>3, <2>1 DEF Stored
<1> HIDE DEF s
<1>8. TypeOK'
  <2>1. step' \in [Callers -> Fetching \cup Reading \cup {"idle", "join"}]
    BY <1>2, <1>4, <1>5 DEF Reading, Fetching
  <2>2. step'[c] \notin {"idle", "join"} /\ step[c] \notin {"idle", "join"}
    BY <1>2, <1>5 DEF Fetching
  <2>3. \A d \in Callers : step'[d] = "idle" <=> user'[d] = None
    BY <1>4, <1>5, <2>2
  <2>4. \A d \in Callers :
           step'[d] = "join" => initializations'[Scope(user'[d])] # None
    BY <1>4, <1>5, <2>2
  <2> QED
    BY <1>2, <1>4, <1>6, <2>1, <2>3, <2>4 DEF ServerStep
<1>9. OneInitialization'
  BY <1>2, <1>4, <1>5 DEF OneInitialization, Initializing, Fetching
<1>10. InitializedOnce'
  <2> SUFFICES ASSUME NEW d \in Callers, step'[d] = "initialize"
               PROVE  sessions'[Scope(user[d])] = None
    BY <1>4 DEF InitializedOnce
  <2>1. d # c /\ step[d] = "initialize" /\ Scope(user[d]) \in Scopes
        /\ sessions[Scope(user[d])] = None
    BY <1>2, <1>5, Busy DEF Fetching, InitializedOnce
  <2>2. step[c] = "initialize" => Scope(user[d]) # s
    BY <1>3, <2>1 DEF OneInitialization, Initializing, s
  <2> QED
    BY <1>6, <2>1, <2>2
<1>11. PresentsTheStored'
  <2> SUFFICES ASSUME NEW d \in Callers, presented[d] # None
               PROVE  step'[d] # "idle" /\ presented[d] = sessions'[Scope(user[d])]
    BY <1>4 DEF PresentsTheStored
  <2>1. step[d] # "idle" /\ presented[d] = sessions[Scope(user[d])]
        /\ Scope(user[d]) \in Scopes
    BY Busy DEF PresentsTheStored
  <2>2. step'[d] # "idle"
    BY <1>2, <1>5, <2>1 DEF Fetching
  <2> QED
    BY <1>6, <2>1, <2>2
<1>12. StoredWereIssued'
  <2> SUFFICES ASSUME NEW t \in Scopes, sessions'[t] # None
               PROVE  /\ issued'[sessions'[t]] # None
                      /\ Name = "hrm" => issued'[sessions'[t]] = t
    BY DEF StoredWereIssued
  <2>1. CASE sessions'[t] = sessions[t]
    BY <1>2, <2>1 DEF StoredWereIssued, ServerStep
  <2>2. CASE sessions'[t] # sessions[t]
    <3>1. t = s /\ sessions'[t] = id /\ issued'[id] = user[c]
      BY <1>2, <1>6, <2>2
    <3>2. Name = "hrm" => s = user[c]
      BY DEF s, Scope
    <3> QED
      BY <1>3, <3>1, <3>2, NoneAssumption
  <2> QED
    BY <2>1, <2>2
<1>13. \A d \in Callers :
         /\ presented[d] # None => issued[presented[d]] # None
         /\ presented[d] # None /\ (presented[d] \in known => presented[d] \in greeted \cup refused) =>
                (presented[d] \in known' => presented[d] \in greeted' \cup refused')
  BY <1>2, Busy DEF PresentsTheStored, StoredWereIssued, ServerStep
<1>14. stateful' = stateful
  BY <1>2 DEF ServerStep
<1>15. Handshake'
  <2> SUFFICES ASSUME stateful, NEW d \in Callers
      PROVE  /\ step'[d] \in {"initializeBody", "notify", "notifyBody"} =>
                    sessions'[Scope(user[d])] # None
             /\ step'[d] \in {"notify", "notifyBody"} =>
                    presented[d] = sessions'[Scope(user[d])]
             /\ step'[d] = "notifyBody" =>
                    (presented[d] \in known' => presented[d] \in greeted' \cup refused')
    BY <1>4, <1>14 DEF Handshake
  <2>1. CASE d = c /\ step[c] = "initialize"
    BY <1>5, <1>7, <2>1 DEF s
  <2>2. CASE d = c /\ step[c] \in {"notify", "request"}
    BY <1>2, <1>3, <1>5, <1>6, <2>2 DEF Handshake, s
  <2>3. CASE d # c
    <3>1. step[d] \in {"initializeBody", "notify", "notifyBody"} => Scope(user[d]) \in Scopes
      BY Busy
    <3> QED
      BY <1>5, <1>6, <1>13, <2>3, <3>1 DEF Handshake
  <2> QED
    BY <1>2, <2>1, <2>2, <2>3 DEF Fetching
<1>16. HandshakePrecedesOwnRequest'
  <2> SUFFICES ASSUME stateful, NEW d \in Callers, waited[d],
                      step'[d] \in {"request", "requestBody"}
      PROVE  /\ presented[d] # None
             /\ presented[d] \in known' => presented[d] \in greeted' \cup refused'
    BY <1>4, <1>14 DEF HandshakePrecedesOwnRequest
  <2>1. step[d] \in {"request", "requestBody"}
    BY <1>2, <1>5 DEF Fetching
  <2> QED
    BY <1>13, <2>1 DEF HandshakePrecedesOwnRequest
<1> QED
  BY <1>8, <1>9, <1>10, <1>11, <1>12, <1>15, <1>16

-----------------------------------------------------------------------------
(* The theorems *)

LEMMA StepIInv == IInv /\ [Next]_vars => IInv'
<1> SUFFICES ASSUME IInv, [Next]_vars PROVE IInv'
  OBVIOUS
<1>1. ASSUME NEW c \in Callers, NEW u \in Users, Call(c, u) PROVE IInv'
  BY <1>1, CallKeeps
<1>2. ASSUME NEW c \in Callers, Headers(c) PROVE IInv'
  BY <1>2, HeadersKeep
<1>3. ASSUME NEW c \in Callers, Refuse(c) PROVE IInv'
  BY <1>3, RefuseKeeps
<1>4. ASSUME NEW c \in Callers, Body(c) PROVE IInv'
  <2>1. step[c] \in Reading /\ UNCHANGED <<server, sessions>> /\ ServerStep
    BY <1>4, NothingIsAServerStep DEF Body, IInv
  <2> QED
    BY <1>4, <2>1, AcceptKeeps, FailKeeps DEF Body
<1>5. ASSUME NEW c \in Callers, Timeout(c) PROVE IInv'
  <2>1. ServerStep
    BY <1>5, NothingIsAServerStep, HandleEffect DEF Timeout, IInv
  <2> QED
    BY <1>5, <2>1, FailKeeps DEF Timeout
<1>6. ASSUME NEW id \in SessionIds, Forget(id) PROVE IInv'
  <2>1. ServerStep
    BY <1>6 DEF Forget, ServerStep, IInv, TypeOK
  <2> QED
    BY <1>6, <2>1, ServerKeeps DEF Forget
<1>7. CASE UNCHANGED vars
  <2>1. ServerStep
    BY <1>7, NothingIsAServerStep DEF vars, IInv
  <2> QED
    BY <1>7, <2>1, ServerKeeps DEF vars
<1> QED
  BY <1>1, <1>2, <1>3, <1>4, <1>5, <1>6, <1>7 DEF Next

(* The maps, the calls and the server's sessions stay within their types,  *)
(* and a call waits only for an initialisation that is under way.          *)
THEOREM TypeCorrect == Spec => []TypeOK
<1>1. IInv => TypeOK
  BY DEF IInv
<1> QED
  BY InitIInv, StepIInv, <1>1, PTL DEF Spec

(* mcpClient.js 100-104: no request to the HRM server presents a session   *)
(* that another user's request created.                                    *)
THEOREM SessionsStayWithTheirUser == Spec => []SessionsKeepTheirUser
<1>1. IInv => SessionsKeepTheirUser
  <2> SUFFICES ASSUME IInv, Name = "hrm", NEW c \in Callers, presented[c] # None
               PROVE  issued[presented[c]] = user[c]
    BY DEF SessionsKeepTheirUser
  <2>1. presented[c] = sessions[Scope(user[c])] /\ Scope(user[c]) \in Scopes
    BY Busy DEF IInv, PresentsTheStored
  <2>2. Scope(user[c]) = user[c]
    BY DEF Scope
  <2> QED
    BY <2>1, <2>2 DEF IInv, StoredWereIssued
<1> QED
  BY InitIInv, StepIInv, <1>1, PTL DEF Spec

(* Concurrent calls of a scope share one initialisation.                   *)
THEOREM ScopesInitializeOnce == Spec => []OneInitialization
<1>1. IInv => OneInitialization
  BY DEF IInv
<1> QED
  BY InitIInv, StepIInv, <1>1, PTL DEF Spec

(* A call that led or joined an initialisation sends its request after the *)
(* server has accepted notifications/initialized for the session it        *)
(* presents, or refused it without a body; an error with a body, a lost    *)
(* answer or a timeout never lets a request through.                       *)
THEOREM HandshakesPrecedeRequests == Spec => []HandshakePrecedesOwnRequest
<1>1. IInv => HandshakePrecedesOwnRequest
  BY DEF IInv
<1> QED
  BY InitIInv, StepIInv, <1>1, PTL DEF Spec

(* A stored session is never replaced, by however many calls at once.      *)
THEOREM StoredSessionsStay == Spec => StoredSessionStays
<1>1. IInv /\ [Next]_vars =>
        [\A s \in Scopes : sessions[s] # None => sessions'[s] = sessions[s]]_vars
  <2> SUFFICES ASSUME IInv, Next, NEW s \in Scopes, sessions[s] # None
               PROVE  sessions'[s] = sessions[s]
    OBVIOUS
  <2>1. ASSUME NEW c \in Callers, Headers(c) PROVE sessions'[s] = sessions[s]
    BY <2>1, StoredOnce DEF Headers
  <2>2. UNCHANGED sessions \/ \E c \in Callers : Headers(c)
    BY DEF Next, Call, Refuse, Body, Timeout, Forget
  <2> QED
    BY <2>1, <2>2
<1> QED
  BY InitIInv, StepIInv, <1>1, PTL DEF Spec, StoredSessionStays
=============================================================================
