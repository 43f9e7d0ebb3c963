---------------------------- MODULE AccessProofs ----------------------------
(* Proofs about what gives access: one-shot tokens and the two that        *)
(* implement them, OAuth states and mutation confirmations, and accounts.  *)
EXTENDS OAuthStates, Confirmations, Accounts, TLAPS

(* Any implementation of OneShotToken *)
CONSTANTS AnyTokens, AnyRequests, AnyContexts
VARIABLES anyContext, anyOpen, anyUses

AnyToken == INSTANCE OneShotToken WITH
           Tokens <- AnyTokens, Requests <- AnyRequests, Contexts <- AnyContexts,
           context <- anyContext, open <- anyOpen, uses <- anyUses

-----------------------------------------------------------------------------
(* What every implementation of OneShotToken inherits *)

(* The types, and UsedOnce: what an open token was issued for is known, and *)
(* it has not been used.                                                    *)
OneShotInv ==
    /\ anyContext \in [AnyTokens -> AnyContexts \cup {None}]
    /\ anyUses \in [AnyTokens -> SUBSET (AnyRequests \X AnyContexts)]
    /\ anyOpen \subseteq AnyTokens
    /\ \A t \in AnyTokens : anyContext[t] = None => anyUses[t] = {}
    /\ AnyToken!UsedOnce

(* A token is used at most once, by a request that presents the context it *)
(* was issued for: what oauthState.js 15-20 and repositories.js 159-172    *)
(* promise of a state and of a confirmation, for any number of them.       *)
THEOREM TokensAreUsedOnce ==
    ASSUME None \notin AnyContexts
    PROVE  AnyToken!OneShotSpec => []AnyToken!UsedOnce
<1>1. AnyToken!OneShotInit => OneShotInv
  BY DEF AnyToken!OneShotInit, OneShotInv, AnyToken!UsedOnce
<1>2. OneShotInv /\ [AnyToken!OneShotNext]_(AnyToken!oneShotVars) => OneShotInv'
  <2> SUFFICES ASSUME OneShotInv, [AnyToken!OneShotNext]_(AnyToken!oneShotVars) PROVE OneShotInv'
    OBVIOUS
  <2> USE DEF OneShotInv, AnyToken!UsedOnce
  <2>1. ASSUME NEW t \in AnyTokens, NEW c \in AnyContexts, AnyToken!Issue(t, c)
        PROVE  OneShotInv'
    BY <2>1 DEF AnyToken!Issue
  <2>2. ASSUME NEW t \in AnyTokens, NEW r \in AnyRequests, AnyToken!Use(t, r)
        PROVE  OneShotInv'
    <3>1. anyUses[t] = {} /\ anyContext[t] \in AnyContexts
      BY <2>2 DEF AnyToken!Use
    <3>2. anyUses'[t] = {<<r, anyContext[t]>>}
          /\ \A v \in AnyTokens \ {t} : anyUses'[v] = anyUses[v]
      BY <2>2, <3>1 DEF AnyToken!Use
    <3>3. anyUses' \in [AnyTokens -> SUBSET (AnyRequests \X AnyContexts)]
      BY <2>2, <3>1 DEF AnyToken!Use
    <3> QED
      BY <2>2, <3>1, <3>2, <3>3 DEF AnyToken!Use
  <2>3. CASE AnyToken!Withdraw
    BY <2>3 DEF AnyToken!Withdraw
  <2>4. CASE UNCHANGED AnyToken!oneShotVars
    BY <2>4 DEF AnyToken!oneShotVars
  <2> QED
    BY <2>1, <2>2, <2>3, <2>4 DEF AnyToken!OneShotNext
<1>3. OneShotInv => AnyToken!UsedOnce
  BY DEF OneShotInv
<1> QED
  BY <1>1, <1>2, <1>3, PTL DEF AnyToken!OneShotSpec


-----------------------------------------------------------------------------
(* OAuth states *)

(* A callback that got the entry of a state keeps the flow it was created  *)
(* for, and a state that was not created has no entry.                     *)
Served(r, s) == callback[r].state = s /\ callback[r].flow # None

CallbacksServe ==
    /\ \A r \in Callbacks :
           /\ callback[r].step = "waiting" => callback[r].flow = None
           /\ callback[r].flow # None =>
                  callback[r].state \in States /\ issued[callback[r].state] = callback[r].flow
    /\ \A s \in States : issued[s] = None => pending[s] = None

OAuthInv == OAuthTypeOK /\ CallbacksServe

(* The mapping of OAuthToken *)
OpenStates == {s \in States : pending[s] # None /\ pending[s].expiresAt > clock}
Uses ==
    [s \in States |->
        {<<r, callback[r].flow>> :
            r \in {q \in Callbacks : callback[q].state = s /\ callback[q].flow # None}}]

LEMMA OAuthInvInit == OAuthInit => OAuthInv
<1> USE OAuthAssumption DEF OAuthInit, Waiting
<1>1. OAuthInit => OAuthTypeOK
  BY DEF OAuthTypeOK
<1>2. OAuthInit => CallbacksServe
  BY DEF CallbacksServe
<1> QED
  BY <1>1, <1>2 DEF OAuthInv

LEMMA OAuthInvStep == OAuthInv /\ [OAuthNext]_oauthVars => OAuthInv'
<1> SUFFICES ASSUME OAuthInv, [OAuthNext]_oauthVars PROVE OAuthInv'
  OBVIOUS
<1> USE OAuthAssumption DEF OAuthInv, OAuthTypeOK, CallbacksServe
<1>1. ASSUME NEW s \in States, NEW flow \in Flows, StartFlow(s, flow) PROVE OAuthInv'
  <2>1. [flow |-> flow, expiresAt |-> clock + Ttl] \in Entry
    BY DEF Entry
  <2>2. \A r \in Callbacks : callback[r].state = s => callback[r].flow = None
    BY <1>1 DEF StartFlow
  <2>3. OAuthTypeOK'
    BY <1>1, <2>1, <2>2 DEF StartFlow
  <2>4. CallbacksServe'
    BY <1>1, <2>2 DEF StartFlow
  <2> QED
    BY <2>3, <2>4
<1>2. ASSUME NEW r \in Callbacks, NEW s \in States, NEW p \in Providers, Receive(r, s, p)
      PROVE  OAuthInv'
  <2>1. pending' \in [States -> Entry \cup {None}]
    BY <1>2 DEF Receive, Consumed
  <2>2. PICK next \in {"exchanging", "failed", "refused"} :
          callback' = [callback EXCEPT ![r] =
               [step |-> next, state |-> s,
                flow |-> IF Accepted(s, p) THEN pending[s].flow ELSE None]]
    BY <1>2 DEF Receive
  <2>3. Accepted(s, p) => pending[s] # None /\ pending[s] \in Entry /\ pending'[s] = None
    BY <1>2 DEF Receive, Accepted, Consumed, Found
  <2>4. \A t \in States : pending'[t] \in {pending[t], None}
    BY <1>2 DEF Receive, Consumed
  <2>5. callback' \in [Callbacks ->
           [step : {"waiting", "refused", "exchanging", "linked", "failed"},
            state : States \cup {None}, flow : Flows \cup {None}]]
    BY <2>2, <2>3 DEF Entry
  <2>6. callback'[r].state = s /\ callback'[r].step # "waiting"
        /\ callback'[r].flow = IF Accepted(s, p) THEN pending[s].flow ELSE None
    BY <2>2
  <2>7. \A q \in Callbacks \ {r} : callback'[q] = callback[q]
    BY <2>2
  <2>8. UNCHANGED <<clock, issued>>
    BY <1>2 DEF Receive
  <2>9. \A t \in States : pending'[t] # None =>
           /\ issued'[t] = pending'[t].flow
           /\ \A q \in Callbacks : callback'[q].state = t => callback'[q].flow = None
    <3> SUFFICES ASSUME NEW t \in States, pending'[t] # None,
                        NEW q \in Callbacks, callback'[q].state = t
                 PROVE  issued'[t] = pending'[t].flow /\ callback'[q].flow = None
      BY <2>4, <2>8
    <3>1. issued'[t] = pending'[t].flow
      BY <2>4, <2>8
    <3>2. ASSUME q = r PROVE callback'[q].flow = None
      BY <3>2, <2>3, <2>6
    <3>3. ASSUME q # r PROVE callback'[q].flow = None
      BY <3>3, <2>4, <2>7
    <3> QED
      BY <3>1, <3>2, <3>3
  <2>10. OAuthTypeOK'
    BY <2>1, <2>5, <2>8, <2>9
  <2>11. CallbacksServe'
    BY <2>3, <2>4, <2>6, <2>7, <2>8
  <2> QED
    BY <2>10, <2>11
<1>3. ASSUME NEW r \in Callbacks, Finish(r) PROVE OAuthInv'
  BY <1>3 DEF Finish
<1>4. CASE Restart
  BY <1>4 DEF Restart
<1>5. CASE TimePasses
  BY <1>5 DEF TimePasses
<1>6. CASE UNCHANGED oauthVars
  BY <1>6 DEF oauthVars
<1> QED
  BY <1>1, <1>2, <1>3, <1>4, <1>5, <1>6 DEF OAuthNext

LEMMA UsesKept ==
    ASSUME \A q \in Callbacks, s \in States :
               /\ Served(q, s)' <=> Served(q, s)
               /\ Served(q, s) => callback'[q].flow = callback[q].flow
    PROVE  Uses' = Uses
<1>1. \A s \in States : Uses'[s] = Uses[s]
  BY DEF Uses, Served
<1> QED
  BY <1>1 DEF Uses

(* Every step of the states is a step of the token, or takes away tokens. *)
LEMMA OAuthStepRefines ==
    OAuthInv /\ [OAuthNext]_oauthVars => [OAuthToken!OneShotNext]_(OAuthToken!oneShotVars)
<1> SUFFICES ASSUME OAuthInv, [OAuthNext]_oauthVars
             PROVE  OAuthToken!OneShotNext \/ UNCHANGED OAuthToken!oneShotVars
  OBVIOUS
<1> USE OAuthAssumption DEF OAuthInv, OAuthTypeOK, CallbacksServe
<1>1. ASSUME NEW s \in States, NEW flow \in Flows, StartFlow(s, flow)
      PROVE  OAuthToken!Issue(s, flow)
  <2>1. Uses' = Uses
    BY <1>1, UsesKept DEF StartFlow, Served
  <2>2. pending'[s] # None /\ pending'[s].expiresAt > clock
    <3>1. [flow |-> flow, expiresAt |-> clock + Ttl] \in Entry
      BY DEF Entry
    <3> QED
      BY <1>1, <3>1 DEF StartFlow
  <2>3. OpenStates' = OpenStates \cup {s}
    BY <1>1, <2>2 DEF StartFlow, OpenStates
  <2> QED
    BY <1>1, <2>1, <2>3 DEF StartFlow, OAuthToken!Issue, OpenStates, Uses
<1>2. ASSUME NEW r \in Callbacks, NEW s \in States, NEW p \in Providers, Receive(r, s, p)
      PROVE  OAuthToken!Use(s, r) \/ OAuthToken!Withdraw
  <2>1. callback[r].flow = None /\ UNCHANGED <<clock, issued>>
    BY <1>2 DEF Receive
  <2>2. /\ callback'[r].state = s
        /\ callback'[r].flow = IF Accepted(s, p) THEN pending[s].flow ELSE None
        /\ \A q \in Callbacks \ {r} : callback'[q] = callback[q]
    BY <1>2 DEF Receive
  <2>3. CASE Accepted(s, p)
    <3>1. s \in OpenStates /\ pending[s].flow = issued[s] /\ issued[s] # None
      BY <2>3 DEF Accepted, Found, OpenStates
    <3>2. OpenStates' = OpenStates \ {s}
      BY <1>2, <2>1, <2>3 DEF Receive, Consumed, Accepted, OpenStates
    <3>3. Uses'[s] = Uses[s] \cup {<<r, issued[s]>>}
      BY <2>1, <2>2, <2>3, <3>1 DEF Uses
    <3>4. \A t \in States \ {s} : Uses'[t] = Uses[t]
      BY <2>1, <2>2 DEF Uses
    <3>5. Uses' = [Uses EXCEPT ![s] = @ \cup {<<r, issued[s]>>}]
      BY <3>3, <3>4 DEF Uses
    <3>6. OAuthToken!Use(s, r)
      BY <2>1, <3>1, <3>2, <3>5 DEF OAuthToken!Use, OpenStates, Uses
    <3> QED
      BY <3>6
  <2>4. CASE ~Accepted(s, p)
    <3>1. OpenStates' \subseteq OpenStates
      BY <1>2, <2>1 DEF Receive, Consumed, OpenStates
    <3>2. Uses' = Uses
      BY <2>1, <2>2, <2>4, UsesKept DEF Served
    <3>3. OAuthToken!Withdraw
      BY <2>1, <3>1, <3>2 DEF OAuthToken!Withdraw, OpenStates, Uses
    <3> QED
      BY <3>3
  <2> QED
    BY <2>3, <2>4
<1>3. ASSUME NEW r \in Callbacks, Finish(r) PROVE OAuthToken!Withdraw
  <2>1. Uses' = Uses
    BY <1>3, UsesKept DEF Finish, Served
  <2>2. OpenStates' = OpenStates
    BY <1>3 DEF Finish, OpenStates
  <2> QED
    BY <1>3, <2>1, <2>2 DEF Finish, OAuthToken!Withdraw, OpenStates, Uses
<1>4. ASSUME Restart PROVE OAuthToken!Withdraw
  <2>1. Uses' = Uses
    BY <1>4, UsesKept DEF Restart, Served
  <2>2. OpenStates' = {}
    BY <1>4 DEF Restart, OpenStates
  <2> QED
    BY <1>4, <2>1, <2>2 DEF Restart, OAuthToken!Withdraw, OpenStates, Uses
<1>5. ASSUME TimePasses PROVE OAuthToken!Withdraw
  <2>1. Uses' = Uses
    BY <1>5, UsesKept DEF TimePasses, Served
  <2>2. OpenStates' \subseteq OpenStates
    BY <1>5 DEF TimePasses, OpenStates, Entry
  <2> QED
    BY <1>5, <2>1, <2>2 DEF TimePasses, OAuthToken!Withdraw, OpenStates, Uses
<1>6. ASSUME UNCHANGED oauthVars PROVE UNCHANGED OAuthToken!oneShotVars
  BY <1>6 DEF oauthVars, OAuthToken!oneShotVars
<1> QED
  BY <1>1, <1>2, <1>3, <1>4, <1>5, <1>6 DEF OAuthNext, OAuthToken!OneShotNext

LEMMA OAuthInitRefines == OAuthInit => OAuthToken!OneShotInit
  BY DEF OAuthInit, Waiting, OAuthToken!OneShotInit

(* Maps, flows and callbacks stay within their types, and an entry is that *)
(* of the flow its state was created for, reached by no callback.          *)
THEOREM OAuthTypeCorrect == OAuthSpec => []OAuthTypeOK
<1>1. OAuthInv => OAuthTypeOK
  BY DEF OAuthInv
<1> QED
  BY OAuthInvInit, OAuthInvStep, <1>1, PTL DEF OAuthSpec

(* oauthState.js 15-20: each state serves at most one callback, for the    *)
(* user and the provider it was created for, for any number of flows,      *)
(* callbacks and restarts and any lifetime of the states.                  *)
THEOREM StatesImplementToken == OAuthSpec => StatesAreOneShot
  BY OAuthInvInit, OAuthInvStep, OAuthInitRefines, OAuthStepRefines, PTL
     DEF OAuthSpec, StatesAreOneShot, OAuthToken!OneShotSpec

-----------------------------------------------------------------------------
(* Mutation confirmations *)

RepliesNameConfirmations ==
    \A r \in Replies : reply[r].step # "unsent" => reply[r].id \in Confirmations

ConfirmationInv == ConfirmationTypeOK /\ RepliesNameConfirmations

(* The mapping of ConfirmationToken *)
OpenConfirmations ==
    {i \in Confirmations : row[i] # None /\ ~row[i].consumed /\ InTime(i)}
Approves(r, i) == reply[r].step = "accepted" /\ reply[r].id = i
ConfirmedUses ==
    [i \in Confirmations |->
        {<<r, reply[r].binding>> :
            r \in {q \in Replies : reply[q].step = "accepted" /\ reply[q].id = i}}]

LEMMA ConfirmationInvInit == ConfirmationInit => ConfirmationInv
  BY ConfirmationAssumption
     DEF ConfirmationInit, NoReply, ConfirmationInv, ConfirmationTypeOK,
         RepliesNameConfirmations

LEMMA ConfirmationInvStep ==
    ConfirmationInv /\ [ConfirmationNext]_confirmationVars => ConfirmationInv'
<1> SUFFICES ASSUME ConfirmationInv, [ConfirmationNext]_confirmationVars
             PROVE  ConfirmationInv'
  OBVIOUS
<1> USE ConfirmationAssumption
        DEF ConfirmationInv, ConfirmationTypeOK, RepliesNameConfirmations
<1>1. ASSUME NEW i \in Confirmations, NEW b \in Bindings, CreatePreview(i, b)
      PROVE  ConfirmationInv'
  <2>1. [binding |-> b, expiresAt |-> time + Lifetime, consumed |-> FALSE] \in Row
    BY DEF Row
  <2> QED
    BY <1>1, <2>1 DEF CreatePreview
<1>2. ASSUME NEW r \in Replies, NEW i \in Confirmations, NEW b \in Bindings,
             Confirm(r, i, b)
      PROVE  ConfirmationInv'
  BY <1>2 DEF Confirm
<1>3. ASSUME NEW r \in Replies, Consume(r) PROVE ConfirmationInv'
  <2>1. reply[r].id \in Confirmations /\ row[reply[r].id] \in Row
    BY <1>3 DEF Consume, Matches
  <2>2. [row[reply[r].id] EXCEPT !.consumed = TRUE] \in Row
    BY <2>1 DEF Row
  <2>3. [row[reply[r].id] EXCEPT !.consumed = TRUE].binding = row[reply[r].id].binding
    BY <2>1 DEF Row
  <2>4. /\ row' = [row EXCEPT ![reply[r].id] =
                      [row[reply[r].id] EXCEPT !.consumed = TRUE]]
        /\ UNCHANGED <<time, present, bound>>
    BY <1>3 DEF Consume
  <2>5. reply' \in [Replies ->
           [step : {"unsent", "updating", "accepted", "failed", "refused"},
            id : Confirmations \cup {None}, binding : Bindings \cup {None},
            started : 0..LastTime]]
        /\ RepliesNameConfirmations'
    BY <1>3 DEF Consume
  <2> QED
    BY <2>1, <2>2, <2>3, <2>4, <2>5
<1>4. ASSUME NEW r \in Replies, Refuse(r) PROVE ConfirmationInv'
  BY <1>4 DEF Refuse
<1>5. ASSUME NEW v \in Conversations, DeleteConversation(v) PROVE ConfirmationInv'
  BY <1>5 DEF DeleteConversation
<1>6. CASE TimeAdvances
  BY <1>6 DEF TimeAdvances
<1>7. CASE UNCHANGED confirmationVars
  BY <1>7 DEF confirmationVars
<1> QED
  BY <1>1, <1>2, <1>3, <1>4, <1>5, <1>6, <1>7 DEF ConfirmationNext

LEMMA ConfirmedUsesKept ==
    ASSUME \A q \in Replies, i \in Confirmations :
               /\ Approves(q, i)' <=> Approves(q, i)
               /\ Approves(q, i) => reply'[q].binding = reply[q].binding
    PROVE  ConfirmedUses' = ConfirmedUses
<1>1. \A i \in Confirmations : ConfirmedUses'[i] = ConfirmedUses[i]
  BY DEF ConfirmedUses, Approves
<1> QED
  BY <1>1 DEF ConfirmedUses

(* Every step of the table is a step of the token, or takes away tokens. *)
LEMMA ConfirmationStepRefines ==
    ConfirmationInv /\ [ConfirmationNext]_confirmationVars
        => [ConfirmationToken!OneShotNext]_(ConfirmationToken!oneShotVars)
<1> SUFFICES ASSUME ConfirmationInv, [ConfirmationNext]_confirmationVars
             PROVE  \/ ConfirmationToken!OneShotNext
                    \/ UNCHANGED ConfirmationToken!oneShotVars
  OBVIOUS
<1> USE ConfirmationAssumption
        DEF ConfirmationInv, ConfirmationTypeOK, RepliesNameConfirmations
<1>1. ASSUME NEW i \in Confirmations, NEW b \in Bindings, CreatePreview(i, b)
      PROVE  ConfirmationToken!Issue(i, b)
  <2>1. ConfirmedUses' = ConfirmedUses
    BY <1>1, ConfirmedUsesKept DEF CreatePreview, Approves
  <2>2. row'[i] # None /\ ~row'[i].consumed /\ row'[i].expiresAt > time
    <3> DEFINE w == [binding |-> b, expiresAt |-> time + Lifetime, consumed |-> FALSE]
    <3>1. w \in Row
      BY DEF Row
    <3>2. ~w.consumed /\ w.expiresAt > time
      OBVIOUS
    <3>3. row'[i] = w
      BY <1>1 DEF CreatePreview
    <3> HIDE DEF w
    <3> QED
      BY <3>1, <3>2, <3>3
  <2>3. OpenConfirmations' = OpenConfirmations \cup {i}
    BY <1>1, <2>2 DEF CreatePreview, OpenConfirmations, InTime
  <2> QED
    BY <1>1, <2>1, <2>3
       DEF CreatePreview, ConfirmationToken!Issue, OpenConfirmations, ConfirmedUses
<1>2. ASSUME NEW r \in Replies, NEW i \in Confirmations, NEW b \in Bindings,
             Confirm(r, i, b)
      PROVE  ConfirmationToken!Withdraw
  <2>1. ConfirmedUses' = ConfirmedUses
    BY <1>2, ConfirmedUsesKept DEF Confirm, Approves
  <2>2. OpenConfirmations' \subseteq OpenConfirmations
    BY <1>2 DEF Confirm, OpenConfirmations, InTime
  <2> QED
    BY <1>2, <2>1, <2>2
       DEF Confirm, ConfirmationToken!Withdraw, OpenConfirmations, ConfirmedUses
<1>3. ASSUME NEW r \in Replies, Consume(r)
      PROVE  \/ \E j \in Confirmations : ConfirmationToken!Use(j, r)
             \/ ConfirmationToken!Withdraw
  <2>0. PICK i \in Confirmations : i = reply[r].id
    BY <1>3 DEF Consume
  <2>1. i = reply[r].id /\ row[i] \in Row /\ row[i] # None /\ ~row[i].consumed
        /\ reply[r].binding = bound[i] /\ row[i].expiresAt > reply[r].started
        /\ reply[r].step = "updating" /\ UNCHANGED <<time, bound>>
    BY <1>3, <2>0 DEF Consume, Matches
  <2>2. i \in OpenConfirmations
    BY <2>1 DEF OpenConfirmations, InTime
  <2>3. PICK next \in {"accepted", "failed"} :
            reply' = [reply EXCEPT ![r] = [@ EXCEPT !.step = next]]
    BY <1>3 DEF Consume
  <2>4. /\ reply'[r].step = next /\ reply'[r].id = i
        /\ reply'[r].binding = bound[i]
        /\ \A q \in Replies \ {r} : reply'[q] = reply[q]
    BY <2>1, <2>3
  <2>5. /\ row'[i] = [row[i] EXCEPT !.consumed = TRUE]
        /\ \A j \in Confirmations \ {i} : row'[j] = row[j]
    BY <1>3, <2>1 DEF Consume
  <2>6. row'[i].consumed
    BY <2>1, <2>5 DEF Row
  <2>7. ASSUME NEW j \in Confirmations \ {i} PROVE InTime(j)' <=> InTime(j)
    <3>1. \A q \in Replies :
            /\ reply'[q].step = "updating" /\ reply'[q].id = j
                  <=> reply[q].step = "updating" /\ reply[q].id = j
            /\ reply[q].id = j => reply'[q].started = reply[q].started
      BY <2>1, <2>4
    <3>2. row'[j].expiresAt = row[j].expiresAt /\ time' = time
      BY <2>1, <2>5
    <3> QED
      BY <3>1, <3>2 DEF InTime
  <2>8. OpenConfirmations' = OpenConfirmations \ {i}
    BY <2>5, <2>6, <2>7 DEF OpenConfirmations
  <2>9. CASE next = "accepted"
    <3>1. ConfirmedUses'[i] = ConfirmedUses[i] \cup {<<r, bound[i]>>}
      BY <2>1, <2>4, <2>9 DEF ConfirmedUses
    <3>2. \A j \in Confirmations \ {i} : ConfirmedUses'[j] = ConfirmedUses[j]
      BY <2>1, <2>4 DEF ConfirmedUses
    <3>3. ConfirmedUses' = [ConfirmedUses EXCEPT ![i] = @ \cup {<<r, bound[i]>>}]
      BY <3>1, <3>2 DEF ConfirmedUses
    <3>4. \E j \in Confirmations : ConfirmationToken!Use(j, r)
      <4> WITNESS i \in Confirmations
      <4> QED
        BY <2>1, <2>2, <2>8, <3>3
           DEF ConfirmationToken!Use, OpenConfirmations, ConfirmedUses
    <3> QED
      BY <3>4
  <2>10. CASE next = "failed"
    <3>1. ConfirmedUses' = ConfirmedUses
      BY <2>1, <2>4, <2>10, ConfirmedUsesKept DEF Approves
    <3>2. ConfirmationToken!Withdraw
      BY <2>1, <2>8, <3>1 DEF ConfirmationToken!Withdraw, OpenConfirmations, ConfirmedUses
    <3> QED
      BY <3>2
  <2> QED
    BY <2>9, <2>10
<1>4. ASSUME NEW r \in Replies, Refuse(r) PROVE ConfirmationToken!Withdraw
  <2>1. ConfirmedUses' = ConfirmedUses
    BY <1>4, ConfirmedUsesKept DEF Refuse, Approves
  <2>2. OpenConfirmations' \subseteq OpenConfirmations
    BY <1>4 DEF Refuse, OpenConfirmations, InTime
  <2> QED
    BY <1>4, <2>1, <2>2
       DEF Refuse, ConfirmationToken!Withdraw, OpenConfirmations, ConfirmedUses
<1>5. ASSUME NEW v \in Conversations, DeleteConversation(v)
      PROVE  ConfirmationToken!Withdraw
  <2>1. ConfirmedUses' = ConfirmedUses
    BY <1>5, ConfirmedUsesKept DEF DeleteConversation, Approves
  <2>2. \A j \in Confirmations : row'[j] \in {row[j], None}
    BY <1>5 DEF DeleteConversation
  <2>3. OpenConfirmations' \subseteq OpenConfirmations
    BY <1>5, <2>2 DEF DeleteConversation, OpenConfirmations, InTime
  <2> QED
    BY <1>5, <2>1, <2>3
       DEF DeleteConversation, ConfirmationToken!Withdraw, OpenConfirmations, ConfirmedUses
<1>6. ASSUME TimeAdvances PROVE ConfirmationToken!Withdraw
  <2>1. ConfirmedUses' = ConfirmedUses
    BY <1>6, ConfirmedUsesKept DEF TimeAdvances, Approves
  <2>2. OpenConfirmations' \subseteq OpenConfirmations
    <3>1. \A j \in Confirmations : row[j] # None => row[j].expiresAt \in Nat
      BY DEF Row
    <3>2. time' = time + 1 /\ UNCHANGED <<row, reply>>
      BY <1>6 DEF TimeAdvances
    <3>3. ASSUME NEW j \in Confirmations, row[j] # None, InTime(j)' PROVE InTime(j)
      BY <3>1, <3>2, <3>3 DEF InTime
    <3> QED
      BY <3>2, <3>3 DEF OpenConfirmations
  <2> QED
    BY <1>6, <2>1, <2>2
       DEF TimeAdvances, ConfirmationToken!Withdraw, OpenConfirmations, ConfirmedUses
<1>7. ASSUME UNCHANGED confirmationVars PROVE UNCHANGED ConfirmationToken!oneShotVars
  BY <1>7 DEF confirmationVars, ConfirmationToken!oneShotVars, InTime
<1> QED
  BY <1>1, <1>2, <1>3, <1>4, <1>5, <1>6, <1>7
     DEF ConfirmationNext, ConfirmationToken!OneShotNext

LEMMA ConfirmationInitRefines == ConfirmationInit => ConfirmationToken!OneShotInit
  BY DEF ConfirmationInit, NoReply, ConfirmationToken!OneShotInit

(* The table and the replies stay within their types; a row belongs to a   *)
(* conversation that is there and is bound to what it was issued for.      *)
THEOREM ConfirmationTypeCorrect == ConfirmationSpec => []ConfirmationTypeOK
<1>1. ConfirmationInv => ConfirmationTypeOK
  BY DEF ConfirmationInv
<1> QED
  BY ConfirmationInvInit, ConfirmationInvStep, <1>1, PTL DEF ConfirmationSpec

(* repositories.js 159-172: one reply at most is accepted for a            *)
(* confirmation, from the context it was shown in and sent before it       *)
(* expired, for any number of replies, conversations and deletions.        *)
THEOREM ConfirmationsImplementToken == ConfirmationSpec => ConfirmedOnce
  BY ConfirmationInvInit, ConfirmationInvStep, ConfirmationInitRefines,
     ConfirmationStepRefines, PTL
     DEF ConfirmationSpec, ConfirmedOnce, ConfirmationToken!OneShotSpec

-----------------------------------------------------------------------------
(* Accounts *)


-----------------------------------------------------------------------------
(* The inductive invariant: a login about to link a row found it unlinked, *)
(* under the address it presents, and no other login presents that address *)
(* for another identity.                                                   *)

Google == {"findSub", "update", "findEmail", "link"}
Local == {"findAuth", "setPassword", "authenticate"}
WithUser == {"update", "link", "setPassword", "sweep", "open"}

LoginsHold ==
    \A l \in Logins :
        /\ login[l].step \in Steps => login[l].email # None
        /\ login[l].step \in WithUser => login[l].user # None
        /\ login[l].step \in Google => login[l].sub # None
        /\ login[l].step \in Local => login[l].sub = None /\ login[l].password # None

SessionsHold ==
    \A l \in Logins :
        sessions[l] # None =>
            login[l].step = "answered" /\ users[sessions[l].user] # None

(* An address in use by a login is its identity's, or nobody's any more. *)
InFlight(l) == login[l].step \in Steps /\ login[l].sub # None

AddressesHold ==
    /\ \A g, h \in Subjects : address[g] = address[h] => g = h
    /\ \A l \in Logins, g \in Subjects :
           InFlight(l) /\ address[g] = login[l].email => g = login[l].sub
    /\ \A k, l \in Logins :
           InFlight(k) /\ InFlight(l) /\ login[k].email = login[l].email =>
               login[k].sub = login[l].sub

LinksHold ==
    \A l \in Logins :
        login[l].sub # None =>
            /\ login[l].step \in {"update", "sweep", "open"} =>
                   users[login[l].user].sub = login[l].sub
            /\ login[l].step = "link" =>
                   LET w == users[login[l].user] IN
                   \/ w.sub = login[l].sub
                   \/ w.sub = None /\ w.email = login[l].email

AccountsInv ==
    /\ AccountsTypeOK
    /\ LoginsHold
    /\ SessionsHold
    /\ AddressesHold
    /\ LinksHold
    /\ GoogleSessionsReachTheirAccount

(* The only way users change: rows are added, and written without losing a *)
(* link or a password.                                                     *)
UsersGrow ==
    \A u \in UserIds : users[u] # None =>
        /\ users'[u] # None
        /\ users[u].sub # None => users'[u].sub = users[u].sub
        /\ users[u].password # None => users'[u].password # None

-----------------------------------------------------------------------------
LEMMA AccountsInvInit == AccountsInit => AccountsInv
<1> SUFFICES ASSUME AccountsInit PROVE AccountsInv
  OBVIOUS
<1> USE AccountsAssumption DEF AccountsInit, NoLogin
<1>1. AccountsTypeOK
  BY DEF AccountsTypeOK
<1>2. LoginsHold /\ SessionsHold /\ AddressesHold /\ LinksHold
  BY DEF LoginsHold, SessionsHold, AddressesHold, LinksHold, InFlight,
         Steps, Google, Local, WithUser
<1>3. GoogleSessionsReachTheirAccount
  BY DEF GoogleSessionsReachTheirAccount
<1> QED
  BY <1>1, <1>2, <1>3 DEF AccountsInv

(* A request arrives, with the identity and the address Google vouches for *)
(* or with a password.                                                     *)
LEMMA ArriveKeeps ==
    ASSUME AccountsInv, NEW l \in Logins, NEW step \in Steps,
           NEW g \in Subjects \cup {None}, NEW e \in Addresses,
           NEW w \in Passwords \cup {None}, Arrive(l, step, g, e, w),
           \/ step = "findSub" /\ g # None /\ e = address[g]
           \/ step \in {"findAuth", "authenticate"} /\ g = None /\ w # None
    PROVE  AccountsInv'
<1> USE AccountsAssumption DEF AccountsInv, AccountsTypeOK
<1>1. /\ login[l].step = "unsent" /\ UNCHANGED <<users, address, sessions>>
      /\ login'[l] = [step |-> step, sub |-> g, email |-> e, password |-> w, user |-> None]
      /\ \A k \in Logins \ {l} : login'[k] = login[k]
      /\ login' = [login EXCEPT ![l] =
           [step |-> step, sub |-> g, email |-> e, password |-> w, user |-> None]]
  BY DEF Arrive
<1>2. AccountsTypeOK'
  <2>1. login' \in [Logins ->
           [step : Steps \cup {"unsent", "conflict", "exists", "invalid",
                               "failed", "answered"},
            sub : Subjects \cup {None}, email : Addresses \cup {None},
            password : Passwords \cup {None}, user : UserIds \cup {None}]]
    BY <1>1
  <2>2. \A k \in Logins : login'[k].user # None => users'[login'[k].user] # None
    BY <1>1
  <2> QED
    BY <1>1, <2>1, <2>2
<1>3. LoginsHold'
  BY <1>1 DEF LoginsHold, Google, Local, WithUser
<1>4. SessionsHold' /\ GoogleSessionsReachTheirAccount'
  BY <1>1 DEF SessionsHold, GoogleSessionsReachTheirAccount
<1>5. AddressesHold'
  BY <1>1 DEF AddressesHold, InFlight
<1>6. LinksHold'
  BY <1>1 DEF LinksHold
<1> QED
  BY <1>2, <1>3, <1>4, <1>5, <1>6

(* Google moves an identity to an address that no login is presenting.     *)
LEMMA MoveAddressKeeps ==
    ASSUME AccountsInv, NEW g \in Subjects, NEW e \in Addresses, MoveAddress(g, e)
    PROVE  AccountsInv'
<1> USE AccountsAssumption DEF AccountsInv, MoveAddress
<1>1. AccountsTypeOK'
  BY DEF AccountsTypeOK
<1>2. LoginsHold' /\ SessionsHold' /\ GoogleSessionsReachTheirAccount' /\ LinksHold'
  BY DEF LoginsHold, SessionsHold, LinksHold, GoogleSessionsReachTheirAccount
<1>3. AddressesHold'
  BY DEF AddressesHold, InFlight, AccountsTypeOK
<1> QED
  BY <1>1, <1>2, <1>3

(* What the step of a login must respect for the row it is about to link.  *)
LinkHolds(l) ==
    LET w == users[login[l].user] IN
    \/ w.sub = login[l].sub
    \/ w.sub = None /\ w.email = login[l].email

Known == Steps \cup {"conflict", "exists", "invalid", "failed"}

(* A statement takes a login to its next step with a row it may hold, and  *)
(* leaves the table as the unique indexes and the other logins need it.    *)
LEMMA StatementKeeps ==
    ASSUME AccountsInv, NEW l \in Logins, login[l].step \in Steps,
           NEW step \in Known, NEW u \in UserIds \cup {None},
           Go(l, step, u), UNCHANGED <<address, sessions>>,
           users' \in [UserIds -> User \cup {None}], UsersGrow,
           \A v, w \in UserIds :
               v # w /\ users'[v] # None /\ users'[w] # None =>
                   /\ users'[v].email # users'[w].email
                   /\ users'[v].sub # None => users'[v].sub # users'[w].sub,
           u # None => users'[u] # None,
           step \in WithUser => u # None,
           step \in Google => login[l].step \in Google,
           step \in Local => login[l].step \in Local,
           step \in {"update", "sweep", "open"} /\ login[l].sub # None =>
               users'[u].sub = login[l].sub,
           step = "link" => LinkHolds(l)',
           \A k \in Logins \ {l} :
               login[k].step = "link" /\ login[k].sub # None => LinkHolds(k)'
    PROVE  AccountsInv'
<1> USE AccountsAssumption DEF AccountsInv
<1>1. /\ login' = [login EXCEPT ![l] = [@ EXCEPT !.step = step, !.user = u]]
      /\ \A k \in Logins \ {l} : login'[k] = login[k]
      /\ login'[l] = [login[l] EXCEPT !.step = step, !.user = u]
      /\ login'[l].step = step /\ login'[l].user = u
      /\ login'[l].sub = login[l].sub /\ login'[l].email = login[l].email
      /\ login'[l].password = login[l].password
  BY DEF Go, AccountsTypeOK
<1>2. AccountsTypeOK'
  <2>1. login' \in [Logins ->
           [step : Steps \cup {"unsent", "conflict", "exists", "invalid",
                               "failed", "answered"},
            sub : Subjects \cup {None}, email : Addresses \cup {None},
            password : Passwords \cup {None}, user : UserIds \cup {None}]]
    <3> DEFINE LoginRow ==
           [step : Steps \cup {"unsent", "conflict", "exists", "invalid",
                               "failed", "answered"},
            sub : Subjects \cup {None}, email : Addresses \cup {None},
            password : Passwords \cup {None}, user : UserIds \cup {None}]
    <3>1. login \in [Logins -> LoginRow]
      BY DEF AccountsTypeOK
    <3>2. [login[l] EXCEPT !.step = step, !.user = u] \in LoginRow
      BY <3>1 DEF Known
    <3> HIDE DEF LoginRow
    <3>3. [login EXCEPT ![l] = [@ EXCEPT !.step = step, !.user = u]] \in [Logins -> LoginRow]
      BY <3>1, <3>2
    <3> QED
      BY <1>1, <3>3 DEF LoginRow
  <2>2. \A k \in Logins : login'[k].user # None => users'[login'[k].user] # None
    <3> TAKE k \in Logins
    <3>1. CASE k = l
      BY <1>1, <3>1
    <3>2. CASE k # l
      BY <1>1, <3>2 DEF AccountsTypeOK, UsersGrow
    <3> QED
      BY <3>1, <3>2
  <2> QED
    BY <2>1, <2>2 DEF AccountsTypeOK
<1>3. LoginsHold'
  BY <1>1 DEF LoginsHold, Known, Steps
<1>4. SessionsHold' /\ GoogleSessionsReachTheirAccount'
  <2> SUFFICES ASSUME NEW k \in Logins, sessions[k] # None
               PROVE  /\ login'[k].step = "answered" /\ users'[sessions[k].user] # None
                      /\ login'[k].sub # None =>
                             users'[sessions[k].user].sub = login'[k].sub
    BY DEF SessionsHold, GoogleSessionsReachTheirAccount
  <2>1. login[k].step = "answered" /\ users[sessions[k].user] # None
        /\ sessions[k].user \in UserIds
    BY DEF SessionsHold, AccountsTypeOK
  <2>2. k # l
    BY <2>1 DEF Steps
  <2>3. login'[k] = login[k]
    BY <1>1, <2>2
  <2> QED
    BY <2>1, <2>3 DEF UsersGrow, GoogleSessionsReachTheirAccount
<1>5. AddressesHold'
  BY <1>1 DEF AddressesHold, InFlight, Known, Steps
<1>6. LinksHold'
  <2> SUFFICES ASSUME NEW k \in Logins, login'[k].sub # None
               PROVE  /\ login'[k].step \in {"update", "sweep", "open"} =>
                             users'[login'[k].user].sub = login'[k].sub
                      /\ login'[k].step = "link" => LinkHolds(k)'
    BY DEF LinksHold, LinkHolds
  <2>1. CASE k = l
    BY <1>1, <2>1
  <2>2. CASE k # l
    <3>1. login'[k] = login[k]
      BY <1>1, <2>2
    <3>2. ASSUME login[k].step \in {"update", "sweep", "open"}
          PROVE  users'[login[k].user].sub = login[k].sub
      <4>1. /\ login[k].user \in UserIds /\ users[login[k].user] # None
            /\ users[login[k].user].sub = login[k].sub
        BY <3>1, <3>2 DEF LinksHold, LoginsHold, WithUser, AccountsTypeOK
      <4> QED
        BY <3>1, <4>1 DEF UsersGrow
    <3> QED
      BY <2>2, <3>1, <3>2
  <2> QED
    BY <2>1, <2>2
<1> QED
  BY <1>2, <1>3, <1>4, <1>5, <1>6

(* A SELECT leaves the table alone.                                        *)
LEMMA ReadKeeps ==
    ASSUME AccountsInv, NEW l \in Logins, login[l].step \in Steps,
           NEW step \in Known, NEW u \in UserIds \cup {None},
           Go(l, step, u), UNCHANGED <<users, address, sessions>>,
           u # None => users[u] # None,
           step \in WithUser => u # None,
           step \in Google => login[l].step \in Google,
           step \in Local => login[l].step \in Local,
           step \in {"update", "sweep", "open"} /\ login[l].sub # None =>
               users[u].sub = login[l].sub,
           step = "link" => \/ users[u].sub = login[l].sub
                            \/ users[u].sub = None /\ users[u].email = login[l].email
    PROVE  AccountsInv'
<1>1. UsersGrow
  BY DEF UsersGrow
<1>2. /\ \A k \in Logins \ {l} : login'[k] = login[k]
      /\ login'[l].user = u /\ login'[l].sub = login[l].sub
      /\ login'[l].email = login[l].email
  BY DEF Go, AccountsInv, AccountsTypeOK
<1>3. step = "link" => LinkHolds(l)'
  BY <1>2 DEF LinkHolds
<1>4. \A k \in Logins \ {l} :
          login[k].step = "link" /\ login[k].sub # None => LinkHolds(k)'
  BY <1>2 DEF LinkHolds, AccountsInv, LinksHold
<1>5. users' \in [UserIds -> User \cup {None}]
  BY DEF AccountsInv, AccountsTypeOK
<1>6. \A v, w \in UserIds :
          v # w /\ users'[v] # None /\ users'[w] # None =>
              /\ users'[v].email # users'[w].email
              /\ users'[v].sub # None => users'[v].sub # users'[w].sub
  BY DEF AccountsInv, AccountsTypeOK
<1> QED
  BY <1>1, <1>3, <1>4, <1>5, <1>6, StatementKeeps

-----------------------------------------------------------------------------
(* A write keeps the invariant when it loses no link, no password, and     *)
(* nothing that a login about to link relies on.                           *)
LEMMA StoreKeeps ==
    ASSUME AccountsInv, NEW l \in Logins, login[l].step \in Steps,
           NEW u \in UserIds, NEW w \in User, Store(l, u, w),
           users[u] # None =>
               /\ users[u].sub # None => w.sub = users[u].sub
               /\ users[u].password # None => w.password # None,
           login[l].sub # None => w.sub = login[l].sub,
           \A k \in Logins \ {l} :
               login[k].step = "link" /\ login[k].sub # None /\ login[k].user = u =>
                   \/ w.sub = login[k].sub
                   \/ w.sub = None /\ w.email = login[k].email
    PROVE  AccountsInv' /\ UsersGrow
<1> USE AccountsAssumption
<1>1. CASE /\ Allowed(u, w)
           /\ users' = [users EXCEPT ![u] = w]
           /\ Go(l, "sweep", u)
           /\ UNCHANGED <<address, sessions>>
  <2>1. /\ users' \in [UserIds -> User \cup {None}] /\ users'[u] = w
        /\ \A v \in UserIds \ {u} : users'[v] = users[v]
    BY <1>1 DEF AccountsInv, AccountsTypeOK
  <2>2. UsersGrow
    BY <2>1 DEF UsersGrow
  <2>3. \A v \in UserIds \ {u} : users[v] # None =>
            /\ users[v].email # w.email
            /\ w.sub # None => users[v].sub # w.sub
    BY <1>1 DEF Allowed, WithEmail, WithSub
  <2>4. ASSUME NEW v \in UserIds, NEW x \in UserIds,
               v # x, users'[v] # None, users'[x] # None
        PROVE  /\ users'[v].email # users'[x].email
               /\ users'[v].sub # None => users'[v].sub # users'[x].sub
    <3>1. CASE v = u
      BY <2>1, <2>3, <2>4, <3>1
    <3>2. CASE x = u
      BY <2>1, <2>3, <2>4, <3>2
    <3>3. CASE v # u /\ x # u
      BY <2>1, <2>4, <3>3 DEF AccountsInv, AccountsTypeOK
    <3> QED
      BY <3>1, <3>2, <3>3
  <2>5. \A k \in Logins \ {l} : login'[k] = login[k]
    BY <1>1 DEF Go, AccountsInv, AccountsTypeOK
  <2>6. ASSUME NEW k \in Logins \ {l}, login[k].step = "link", login[k].sub # None
        PROVE  LinkHolds(k)'
    <3>1. CASE login[k].user = u
      BY <2>1, <2>5, <2>6, <3>1 DEF LinkHolds
    <3>2. CASE login[k].user # u
      <4>1. login[k].user \in UserIds /\ LinkHolds(k)
        BY <2>6 DEF AccountsInv, LoginsHold, LinksHold, LinkHolds, WithUser, Steps,
                    AccountsTypeOK
      <4> QED
        BY <2>1, <2>5, <3>2, <4>1 DEF LinkHolds
    <3> QED
      BY <3>1, <3>2
  <2>7. w # None
    OBVIOUS
  <2>8. /\ "sweep" \in Known /\ "sweep" \notin Google /\ "sweep" \notin Local
        /\ users'[u] # None /\ login[l].sub # None => users'[u].sub = login[l].sub
    BY <2>1, <2>7 DEF Known, Steps, Google, Local
  <2>9. AccountsInv'
    BY <1>1, <2>1, <2>2, <2>4, <2>6, <2>7, <2>8, StatementKeeps
  <2> QED
    BY <2>2, <2>9
<1>2. CASE Go(l, "failed", None) /\ UNCHANGED <<users, address, sessions>>
  <2>1. /\ "failed" \in Known /\ "failed" \notin Google /\ "failed" \notin Local
        /\ "failed" \notin WithUser
    BY DEF Known, Google, Local, WithUser
  <2>2. AccountsInv'
    BY <1>2, <2>1, ReadKeeps
  <2> QED
    BY <1>2, <2>2 DEF UsersGrow
<1> QED
  BY <1>1, <1>2 DEF Store

(* What a login that serves a row knows of it.                             *)
LEMMA RowsKnown ==
    ASSUME AccountsInv, NEW l \in Logins, login[l].step \in WithUser
    PROVE  /\ login[l].user \in UserIds /\ users[login[l].user] \in User
           /\ login[l].email \in Addresses
BY DEF AccountsInv, AccountsTypeOK, LoginsHold, WithUser, Steps

LEMMA UpdateUserKeeps ==
    ASSUME AccountsInv, NEW l \in Logins, UpdateUser(l)
    PROVE  AccountsInv' /\ UsersGrow
<1> USE AccountsAssumption
<1> DEFINE u == login[l].user
           w == [users[u] EXCEPT !.email = login[l].email]
<1>1. login[l].step = "update" /\ Store(l, u, w)
  BY DEF UpdateUser
<1>2. u \in UserIds /\ users[u] \in User /\ login[l].email \in Addresses
  BY <1>1, RowsKnown DEF WithUser
<1>3. /\ w \in User /\ w.sub = users[u].sub /\ w.password = users[u].password
      /\ w.email = login[l].email
  BY <1>2 DEF User
<1>4. login[l].sub # None /\ users[u].sub = login[l].sub
  BY <1>1 DEF AccountsInv, LoginsHold, LinksHold, Google, Steps
<1>5. ASSUME NEW k \in Logins, login[k].step = "link", login[k].sub # None,
             login[k].user = u
      PROVE  w.sub = login[k].sub
  BY <1>3, <1>4, <1>5 DEF AccountsInv, LinksHold
<1>6. login[l].step \in Steps
  BY <1>1 DEF Steps
<1> HIDE DEF u, w
<1> QED
  BY <1>1, <1>2, <1>3, <1>4, <1>5, <1>6, StoreKeeps

(* Two logins about to link one row found it under the one address they    *)
(* both present, so they are of one identity.                              *)
LEMMA LinkGoogleSubKeeps ==
    ASSUME AccountsInv, NEW l \in Logins, LinkGoogleSub(l)
    PROVE  AccountsInv' /\ UsersGrow
<1> USE AccountsAssumption
<1> DEFINE u == login[l].user
           w == [users[u] EXCEPT !.sub = login[l].sub]
<1>1. login[l].step = "link" /\ Store(l, u, w)
  BY DEF LinkGoogleSub
<1>2. /\ u \in UserIds /\ users[u] \in User /\ login[l].email \in Addresses
      /\ login[l].sub \in Subjects \cup {None}
  BY <1>1, RowsKnown DEF WithUser, AccountsInv, AccountsTypeOK
<1>3. /\ w \in User /\ w.sub = login[l].sub /\ w.password = users[u].password
      /\ w.email = users[u].email
  BY <1>2 DEF User
<1>4. login[l].sub # None
  BY <1>1 DEF AccountsInv, LoginsHold, Google, Steps
<1>5. \/ users[u].sub = login[l].sub
      \/ users[u].sub = None /\ users[u].email = login[l].email
  BY <1>1, <1>4 DEF AccountsInv, LinksHold
<1>6. ASSUME NEW k \in Logins, login[k].step = "link", login[k].sub # None,
             login[k].user = u
      PROVE  w.sub = login[k].sub
  <2>1. \/ users[u].sub = login[k].sub
        \/ users[u].sub = None /\ users[u].email = login[k].email
    BY <1>6 DEF AccountsInv, LinksHold
  <2>2. InFlight(k) /\ InFlight(l)
    BY <1>1, <1>4, <1>6 DEF InFlight, Steps
  <2>3. login[k].email = login[l].email => login[k].sub = login[l].sub
    BY <2>2 DEF AccountsInv, AddressesHold
  <2> QED
    BY <1>3, <1>4, <1>5, <1>6, <2>1, <2>3
<1>7. login[l].step \in Steps
  BY <1>1 DEF Steps
<1>8. users[u].sub # None => w.sub = users[u].sub
  BY <1>3, <1>5
<1> HIDE DEF u, w
<1> QED
  BY <1>1, <1>2, <1>3, <1>6, <1>7, <1>8, StoreKeeps

LEMMA SetPasswordHashKeeps ==
    ASSUME AccountsInv, NEW l \in Logins, SetPasswordHash(l)
    PROVE  AccountsInv' /\ UsersGrow
<1> USE AccountsAssumption
<1> DEFINE u == login[l].user
           w == WithPassword(l)
<1>1. login[l].step = "setPassword" /\ Store(l, u, w)
  BY DEF SetPasswordHash
<1>2. u \in UserIds /\ users[u] \in User
  BY <1>1, RowsKnown DEF WithUser
<1>3. login[l].sub = None /\ login[l].password \in Passwords
  BY <1>1 DEF AccountsInv, LoginsHold, Local, Steps, AccountsTypeOK
<1>4. /\ w \in User /\ w.sub = users[u].sub /\ w.password # None
      /\ w.email = users[u].email
  BY <1>2, <1>3 DEF User, WithPassword
<1>5. ASSUME NEW k \in Logins, login[k].step = "link", login[k].sub # None,
             login[k].user = u
      PROVE  \/ w.sub = login[k].sub
             \/ w.sub = None /\ w.email = login[k].email
  BY <1>4, <1>5 DEF AccountsInv, LinksHold
<1>6. login[l].step \in Steps
  BY <1>1 DEF Steps
<1> HIDE DEF u, w
<1> QED
  BY <1>1, <1>2, <1>3, <1>4, <1>5, <1>6, StoreKeeps

LEMMA CreateUserKeeps ==
    ASSUME AccountsInv, NEW l \in Logins, CreateUser(l)
    PROVE  AccountsInv' /\ UsersGrow
<1> USE AccountsAssumption
<1> DEFINE w == [email |-> login[l].email, sub |-> login[l].sub,
                 password |-> login[l].password]
<1>1. PICK u \in UserIds : users[u] = None /\ Store(l, u, w)
  BY DEF CreateUser
<1>2. login[l].step \in Steps
  BY DEF CreateUser, Steps
<1>3. w \in User /\ w.sub = login[l].sub
  BY <1>2 DEF User, AccountsInv, LoginsHold, AccountsTypeOK
<1>4. ASSUME NEW k \in Logins, login[k].step = "link" PROVE login[k].user # u
  <2>1. login[k].step \in WithUser
    BY <1>4 DEF WithUser
  <2>2. users[login[k].user] \in User
    BY <2>1, RowsKnown
  <2> QED
    BY <1>1, <2>2
<1> HIDE DEF w
<1> QED
  BY <1>1, <1>2, <1>3, <1>4, StoreKeeps

LEMMA FindByGoogleSubKeeps ==
    ASSUME AccountsInv, NEW l \in Logins, FindByGoogleSub(l)
    PROVE  AccountsInv'
<1> USE AccountsAssumption DEF Reads
<1>1. login[l].step = "findSub" /\ login[l].step \in Google /\ login[l].step \in Steps
  BY DEF FindByGoogleSub, Google, Steps
<1>2. /\ "update" \in Known /\ "findEmail" \in Known
      /\ "update" \notin Local /\ "findEmail" \notin Local /\ "findEmail" \notin WithUser
  BY DEF Known, Steps, Local, WithUser
<1>3. ASSUME NEW u \in WithSub(login[l].sub), Go(l, "update", u),
             UNCHANGED <<users, address, sessions>>
      PROVE  AccountsInv'
  <2>1. u \in UserIds /\ users[u] # None /\ users[u].sub = login[l].sub /\ u # None
    BY DEF WithSub
  <2> QED
    BY <1>1, <1>2, <1>3, <2>1, ReadKeeps
<1>4. ASSUME Go(l, "findEmail", None), UNCHANGED <<users, address, sessions>>
      PROVE  AccountsInv'
  BY <1>1, <1>2, <1>4, ReadKeeps
<1> QED
  BY <1>3, <1>4 DEF FindByGoogleSub

LEMMA FindByEmailKeeps ==
    ASSUME AccountsInv, NEW l \in Logins, FindByEmail(l)
    PROVE  AccountsInv'
<1> USE AccountsAssumption DEF Reads
<1>1. /\ login[l].step = "findEmail" /\ login[l].step \in Google
      /\ login[l].step \in Steps
  BY DEF FindByEmail, Google, Steps
<1>2. /\ {"link", "conflict", "create"} \subseteq Known
      /\ "link" \notin Local /\ "conflict" \notin Local \cup Google \cup WithUser
      /\ "create" \notin Local \cup Google \cup WithUser
  BY DEF Known, Steps, Local, Google, WithUser
<1>3. ASSUME NEW u \in WithEmail(login[l].email), Go(l, AfterEmail(l, u), u),
             UNCHANGED <<users, address, sessions>>
      PROVE  AccountsInv'
  <2>1. u \in UserIds /\ users[u] # None /\ users[u].email = login[l].email /\ u # None
    BY DEF WithEmail
  <2>2. CASE users[u].sub \in {None, login[l].sub}
    <3>1. Go(l, "link", u)
      BY <1>3, <2>2 DEF AfterEmail
    <3> QED
      BY <1>1, <1>2, <1>3, <2>1, <2>2, <3>1, ReadKeeps
  <2>3. CASE users[u].sub \notin {None, login[l].sub}
    <3>1. Go(l, "conflict", u)
      BY <1>3, <2>3 DEF AfterEmail
    <3> QED
      BY <1>1, <1>2, <1>3, <2>1, <3>1, ReadKeeps
  <2> QED
    BY <2>2, <2>3
<1>4. ASSUME Go(l, "create", None), UNCHANGED <<users, address, sessions>>
      PROVE  AccountsInv'
  BY <1>1, <1>2, <1>4, ReadKeeps
<1> QED
  BY <1>3, <1>4 DEF FindByEmail

LEMMA FindForRegistrationKeeps ==
    ASSUME AccountsInv, NEW l \in Logins, FindForRegistration(l)
    PROVE  AccountsInv'
<1> USE AccountsAssumption DEF Reads
<1>1. /\ login[l].step = "findAuth" /\ login[l].step \in Local
      /\ login[l].step \in Steps
  BY DEF FindForRegistration, Local, Steps
<1>2. /\ {"exists", "setPassword", "create"} \subseteq Known
      /\ "setPassword" \notin Google /\ "exists" \notin Local \cup Google \cup WithUser
      /\ "create" \notin Local \cup Google \cup WithUser
  BY DEF Known, Steps, Local, Google, WithUser
<1>3. ASSUME NEW u \in WithEmail(login[l].email),
             NEW step \in {"exists", "setPassword"}, Go(l, step, u),
             UNCHANGED <<users, address, sessions>>
      PROVE  AccountsInv'
  <2>1. u \in UserIds /\ users[u] # None /\ u # None
    BY DEF WithEmail
  <2> QED
    BY <1>1, <1>2, <1>3, <2>1, ReadKeeps
<1>4. ASSUME Go(l, "create", None), UNCHANGED <<users, address, sessions>>
      PROVE  AccountsInv'
  BY <1>1, <1>2, <1>4, ReadKeeps
<1> QED
  BY <1>3, <1>4 DEF FindForRegistration

LEMMA AuthenticateKeeps ==
    ASSUME AccountsInv, NEW l \in Logins, Authenticate(l)
    PROVE  AccountsInv'
<1> USE AccountsAssumption DEF Reads
<1>1. /\ login[l].step \in Steps /\ login[l].sub = None
  BY DEF Authenticate, Local, Steps, AccountsInv, LoginsHold
<1>2. /\ {"sweep", "invalid"} \subseteq Known
      /\ "sweep" \notin Local \cup Google /\ "invalid" \notin Local \cup Google \cup WithUser
  BY DEF Known, Steps, Local, Google, WithUser
<1>3. ASSUME NEW u \in WithEmail(login[l].email), Go(l, "sweep", u),
             UNCHANGED <<users, address, sessions>>
      PROVE  AccountsInv'
  <2>1. u \in UserIds /\ users[u] # None /\ u # None
    BY DEF WithEmail
  <2> QED
    BY <1>1, <1>2, <1>3, <2>1, ReadKeeps
<1>4. ASSUME Go(l, "invalid", None), UNCHANGED <<users, address, sessions>>
      PROVE  AccountsInv'
  BY <1>1, <1>2, <1>4, ReadKeeps
<1> QED
  BY <1>3, <1>4 DEF Authenticate

-----------------------------------------------------------------------------
(* A session that ends leaves no trace in users or logins.                 *)
LEMMA EndSessionKeeps ==
    ASSUME AccountsInv, NEW l \in Logins, EndSession(l)
    PROVE  AccountsInv'
<1> USE AccountsAssumption DEF AccountsInv
<1> DEFINE LoginRow == [user : UserIds, over : BOOLEAN]
<1>1. /\ sessions \in [Logins -> LoginRow \cup {None}] /\ sessions[l] # None
      /\ UNCHANGED <<users, address, login>>
      /\ sessions' = [sessions EXCEPT ![l] = [@ EXCEPT !.over = TRUE]]
  BY DEF EndSession, AccountsTypeOK
<1>2. sessions[l] \in LoginRow
  BY <1>1
<1>3. [sessions[l] EXCEPT !.over = TRUE] \in LoginRow
      /\ [sessions[l] EXCEPT !.over = TRUE].user = sessions[l].user
  BY <1>2
<1> HIDE DEF LoginRow
<1>4. /\ sessions' \in [Logins -> LoginRow \cup {None}]
      /\ \A k \in Logins : sessions'[k] # None =>
             sessions[k] # None /\ sessions'[k].user = sessions[k].user
  <2>1. sessions'[l] = [sessions[l] EXCEPT !.over = TRUE]
        /\ \A k \in Logins \ {l} : sessions'[k] = sessions[k]
    BY <1>1
  <2> QED
    BY <1>1, <1>3, <2>1
<1>5. AccountsTypeOK'
  BY <1>1, <1>4 DEF AccountsTypeOK, LoginRow
<1>6. SessionsHold' /\ GoogleSessionsReachTheirAccount'
  BY <1>1, <1>4 DEF SessionsHold, GoogleSessionsReachTheirAccount
<1>7. LoginsHold' /\ AddressesHold' /\ LinksHold'
  BY <1>1 DEF LoginsHold, AddressesHold, LinksHold, InFlight
<1> QED
  BY <1>5, <1>6, <1>7

LEMMA CreateSessionKeeps ==
    ASSUME AccountsInv, NEW l \in Logins, CreateSession(l)
    PROVE  AccountsInv'
<1> USE AccountsAssumption DEF AccountsInv
<1>1. /\ login[l].step = "open" /\ UNCHANGED <<users, address>>
      /\ sessions' = [sessions EXCEPT ![l] = [user |-> login[l].user, over |-> FALSE]]
      /\ login' = [login EXCEPT ![l] = [@ EXCEPT !.step = "answered", !.user = login[l].user]]
  BY DEF CreateSession, Go
<1>2. /\ login[l].user \in UserIds /\ users[login[l].user] # None
  BY <1>1 DEF AccountsTypeOK, LoginsHold, WithUser
<1>3. /\ \A k \in Logins \ {l} : login'[k] = login[k] /\ sessions'[k] = sessions[k]
      /\ login'[l].step = "answered" /\ login'[l].user = login[l].user
      /\ login'[l].sub = login[l].sub /\ login'[l].email = login[l].email
      /\ sessions'[l].user = login[l].user
  BY <1>1 DEF AccountsTypeOK
<1>4. AccountsTypeOK'
  <2> DEFINE LoginRow ==
           [step : Steps \cup {"unsent", "conflict", "exists", "invalid",
                               "failed", "answered"},
            sub : Subjects \cup {None}, email : Addresses \cup {None},
            password : Passwords \cup {None}, user : UserIds \cup {None}]
  <2>1. login \in [Logins -> LoginRow]
    BY DEF AccountsTypeOK
  <2>2. [login[l] EXCEPT !.step = "answered", !.user = login[l].user] \in LoginRow
    BY <2>1
  <2> HIDE DEF LoginRow
  <2>3. login' \in [Logins -> LoginRow]
    BY <1>1, <2>1, <2>2
  <2>4. sessions' \in [Logins -> [user : UserIds, over : BOOLEAN] \cup {None}]
    BY <1>1, <1>2 DEF AccountsTypeOK
  <2>5. \A k \in Logins : login'[k].user # None => users'[login'[k].user] # None
    BY <1>1, <1>2, <1>3 DEF AccountsTypeOK
  <2> QED
    BY <1>1, <2>3, <2>4, <2>5 DEF AccountsTypeOK, LoginRow
<1>5. LoginsHold' /\ LinksHold'
  BY <1>1, <1>3 DEF LoginsHold, LinksHold, Steps, WithUser, Google, Local
<1>6. AddressesHold'
  BY <1>1, <1>3 DEF AddressesHold, InFlight, Steps
<1>7. SessionsHold'
  BY <1>1, <1>2, <1>3 DEF SessionsHold
<1>8. GoogleSessionsReachTheirAccount'
  BY <1>1, <1>2, <1>3 DEF GoogleSessionsReachTheirAccount, LinksHold
<1> QED
  BY <1>4, <1>5, <1>6, <1>7, <1>8

LEMMA DeleteExpiredSessionsKeeps ==
    ASSUME AccountsInv, NEW l \in Logins, DeleteExpiredSessions(l)
    PROVE  AccountsInv'
<1> USE AccountsAssumption DEF AccountsInv
<1>1. /\ login[l].step = "sweep" /\ UNCHANGED <<users, address>>
      /\ login' = [login EXCEPT ![l] = [@ EXCEPT !.step = "open", !.user = login[l].user]]
      /\ \A k \in Logins : sessions'[k] \in {sessions[k], None}
      /\ sessions' = [k \in Logins |->
             IF sessions[k] # None /\ sessions[k].over THEN None ELSE sessions[k]]
  BY DEF DeleteExpiredSessions, Go
<1>2. /\ login[l].user \in UserIds /\ users[login[l].user] # None
  BY <1>1 DEF AccountsTypeOK, LoginsHold, WithUser
<1>3. /\ \A k \in Logins \ {l} : login'[k] = login[k]
      /\ login'[l].step = "open" /\ login'[l].user = login[l].user
      /\ login'[l].sub = login[l].sub /\ login'[l].email = login[l].email
  BY <1>1 DEF AccountsTypeOK
<1>4. AccountsTypeOK'
  <2> DEFINE LoginRow ==
           [step : Steps \cup {"unsent", "conflict", "exists", "invalid",
                               "failed", "answered"},
            sub : Subjects \cup {None}, email : Addresses \cup {None},
            password : Passwords \cup {None}, user : UserIds \cup {None}]
  <2>1. login \in [Logins -> LoginRow]
    BY DEF AccountsTypeOK
  <2>2. [login[l] EXCEPT !.step = "open", !.user = login[l].user] \in LoginRow
    BY <2>1 DEF Steps
  <2> HIDE DEF LoginRow
  <2>3. login' \in [Logins -> LoginRow]
    BY <1>1, <2>1, <2>2
  <2>4. sessions' \in [Logins -> [user : UserIds, over : BOOLEAN] \cup {None}]
    BY <1>1 DEF AccountsTypeOK
  <2>5. \A k \in Logins : login'[k].user # None => users'[login'[k].user] # None
    BY <1>1, <1>2, <1>3 DEF AccountsTypeOK
  <2> QED
    BY <1>1, <2>3, <2>4, <2>5 DEF AccountsTypeOK, LoginRow
<1>5. LoginsHold' /\ LinksHold'
  BY <1>1, <1>2, <1>3 DEF LoginsHold, LinksHold, Steps, WithUser, Google, Local
<1>6. AddressesHold'
  BY <1>1, <1>3 DEF AddressesHold, InFlight, Steps
<1>7. SessionsHold' /\ GoogleSessionsReachTheirAccount'
  BY <1>1, <1>3 DEF SessionsHold, GoogleSessionsReachTheirAccount
<1> QED
  BY <1>4, <1>5, <1>6, <1>7

-----------------------------------------------------------------------------
(* Every step of the accounts keeps the invariant and grows the users.     *)
LEMMA StepKeeps ==
    ASSUME AccountsInv, [AccountsNext]_accountVars
    PROVE  AccountsInv' /\ UsersGrow
<1> USE AccountsAssumption
<1>1. ASSUME NEW l \in Logins, NEW g \in Subjects, GoogleLogin(l, g)
      PROVE  AccountsInv' /\ UsersGrow
  <2>1. Arrive(l, "findSub", g, address[g], None) /\ address[g] \in Addresses
    BY <1>1 DEF GoogleLogin, AccountsInv, AccountsTypeOK
  <2>2. "findSub" \in Steps /\ g # None
    BY DEF Steps
  <2> QED
    BY <2>1, <2>2, ArriveKeeps DEF Arrive, UsersGrow
<1>2. ASSUME NEW l \in Logins, NEW e \in Addresses, NEW w \in Passwords,
             Register(l, e, w) \/ LocalLogin(l, e, w)
      PROVE  AccountsInv' /\ UsersGrow
  <2>1. "findAuth" \in Steps /\ "authenticate" \in Steps /\ w # None
    BY DEF Steps
  <2>2. CASE Register(l, e, w)
    BY <2>1, <2>2, ArriveKeeps DEF Register, Arrive, UsersGrow
  <2>3. CASE LocalLogin(l, e, w)
    BY <2>1, <2>3, ArriveKeeps DEF LocalLogin, Arrive, UsersGrow
  <2> QED
    BY <1>2, <2>2, <2>3
<1>3. ASSUME NEW g \in Subjects, NEW e \in Addresses, MoveAddress(g, e)
      PROVE  AccountsInv' /\ UsersGrow
  BY <1>3, MoveAddressKeeps DEF MoveAddress, UsersGrow
<1>4. ASSUME NEW l \in Logins, Statement(l)
      PROVE  AccountsInv' /\ UsersGrow
  <2>1. CASE FindByGoogleSub(l)
    BY <2>1, FindByGoogleSubKeeps DEF FindByGoogleSub, Reads, UsersGrow
  <2>2. CASE FindByEmail(l)
    BY <2>2, FindByEmailKeeps DEF FindByEmail, Reads, UsersGrow
  <2>3. CASE FindForRegistration(l)
    BY <2>3, FindForRegistrationKeeps DEF FindForRegistration, Reads, UsersGrow
  <2>4. CASE Authenticate(l)
    BY <2>4, AuthenticateKeeps DEF Authenticate, Reads, UsersGrow
  <2>5. CASE UpdateUser(l) \/ LinkGoogleSub(l) \/ SetPasswordHash(l) \/ CreateUser(l)
    BY <2>5, UpdateUserKeeps, LinkGoogleSubKeeps, SetPasswordHashKeeps, CreateUserKeeps
  <2>6. CASE DeleteExpiredSessions(l)
    BY <2>6, DeleteExpiredSessionsKeeps DEF DeleteExpiredSessions, UsersGrow
  <2>7. CASE CreateSession(l)
    BY <2>7, CreateSessionKeeps DEF CreateSession, UsersGrow
  <2>8. CASE EndSession(l)
    BY <2>8, EndSessionKeeps DEF EndSession, UsersGrow
  <2> QED
    BY <1>4, <2>1, <2>2, <2>3, <2>4, <2>5, <2>6, <2>7, <2>8 DEF Statement
<1>5. ASSUME UNCHANGED accountVars
      PROVE  AccountsInv' /\ UsersGrow
  BY <1>5 DEF accountVars, UsersGrow, AccountsInv, AccountsTypeOK, LoginsHold,
              SessionsHold, AddressesHold, LinksHold, InFlight,
              GoogleSessionsReachTheirAccount
<1> QED
  BY <1>1, <1>2, <1>3, <1>4, <1>5 DEF AccountsNext

(* The invariant holds in every state, for any number of logins.           *)
LEMMA AccountsInvHolds == AccountsSpec => []AccountsInv
<1>1. AccountsInit => AccountsInv
  BY AccountsInvInit
<1>2. AccountsInv /\ [AccountsNext]_accountVars => AccountsInv'
  BY StepKeeps
<1> QED
  BY <1>1, <1>2, PTL DEF AccountsSpec

(* Type correctness of Accounts, and the unique indexes of users: however  *)
(* many first logins of one address overlap, they make one account.        *)
THEOREM AccountsTypeCorrect == AccountsSpec => []AccountsTypeOK
<1>1. AccountsInv => AccountsTypeOK
  BY DEF AccountsInv
<1> QED
  BY <1>1, AccountsInvHolds, PTL

(* applicationAuth.js 29-35: no login, registration or change of address   *)
(* takes a Google identity or a password from an account.                  *)
THEOREM LinksAreKept == AccountsSpec => AccountsKeepTheirLinks
<1>1. AccountsInv /\ [AccountsNext]_accountVars =>
          [\A u \in UserIds : users[u] # None =>
              /\ users[u].sub # None => users'[u].sub = users[u].sub
              /\ users[u].password # None => users'[u].password # None]_accountVars
  BY StepKeeps DEF UsersGrow
<1> QED
  BY <1>1, AccountsInvHolds, PTL DEF AccountsSpec, AccountsKeepTheirLinks

(* applicationAuth.js 24-48: the session a Google login opens is of the    *)
(* account that is linked to its identity.                                 *)
THEOREM GoogleSessionsAreLinked == AccountsSpec => []GoogleSessionsReachTheirAccount
<1>1. AccountsInv => GoogleSessionsReachTheirAccount
  BY DEF AccountsInv
<1> QED
  BY <1>1, AccountsInvHolds, PTL
=============================================================================
