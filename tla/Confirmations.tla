---------------------------- MODULE Confirmations ----------------------------
(***************************************************************************)
(* Mutation confirmations: MutationConfirmationService and its table.  A   *)
(* preview inserts a row bound to its context; a reply CONFIRM <id> runs   *)
(* one conditional UPDATE, whose now() is the time the statement started,  *)
(* not the time it got the row.                                            *)
(***************************************************************************)
EXTENDS Naturals, Null

CONSTANTS
    Contexts,        \* user, company and mutation kind, as one value
    Conversations,
    Confirmations,   \* ids the table can generate: bounds the previews
    Replies,         \* CONFIRM replies, each sent once
    Lifetime,        \* ttlMs
    LastTime         \* bound of the clock

VARIABLES
    time,
    present,    \* rows of conversations
    row,        \* mutation_confirmations
    bound,      \* history: what a confirmation was issued for
    reply       \* a reply's progress
confirmationVars == <<time, present, row, bound, reply>>

Bindings == [context : Contexts, conversation : Conversations]
Row == [binding : Bindings, expiresAt : Nat, consumed : BOOLEAN]

ASSUME ConfirmationAssumption ==
    /\ Lifetime \in Nat \ {0} /\ LastTime \in Nat
    /\ None \notin Bindings /\ None \notin Row /\ None \notin Confirmations

NoReply == [step |-> "unsent", id |-> None, binding |-> None, started |-> 0]

ConfirmationInit ==
    /\ time = 0
    /\ present = Conversations
    /\ row = [i \in Confirmations |-> None]
    /\ bound = [i \in Confirmations |-> None]
    /\ reply = [r \in Replies |-> NoReply]

\* createPreview; the foreign key refuses a deleted conversation.
CreatePreview(i, b) ==
    /\ bound[i] = None
    /\ b.conversation \in present
    /\ row' = [row EXCEPT ![i] =
           [binding |-> b, expiresAt |-> time + Lifetime, consumed |-> FALSE]]
    /\ bound' = [bound EXCEPT ![i] = b]
    /\ UNCHANGED <<time, present, reply>>

\* consumeExplicitConfirmation: the UPDATE is sent.
Confirm(r, i, b) ==
    /\ reply[r].step = "unsent"
    /\ reply' = [reply EXCEPT ![r] =
           [step |-> "updating", id |-> i, binding |-> b, started |-> time]]
    /\ UNCHANGED <<time, present, row, bound>>

\* Mutant: the UPDATE does not ask for consumed_at IS NULL.
MatchesAgain(r) ==
    LET w == row[reply[r].id] IN
    w # None /\ w.binding = reply[r].binding /\ w.expiresAt > reply[r].started

\* The WHERE clause of consumeBound
Matches(r) ==
    LET w == row[reply[r].id] IN
    /\ w # None
    /\ w.binding = reply[r].binding
    /\ ~w.consumed
    /\ w.expiresAt > reply[r].started

\* The UPDATE takes the row.  The answer can be lost, and a payload that does
\* not match its digest is refused, after the row is consumed.
Consume(r) ==
    /\ reply[r].step = "updating"
    /\ Matches(r)
    /\ row' = [row EXCEPT ![reply[r].id] = [@ EXCEPT !.consumed = TRUE]]
    /\ \E next \in {"accepted", "failed"} :
           reply' = [reply EXCEPT ![r] = [@ EXCEPT !.step = next]]
    /\ UNCHANGED <<time, present, bound>>

Refuse(r) ==
    /\ reply[r].step = "updating"
    /\ ~Matches(r)
    /\ reply' = [reply EXCEPT ![r] = [@ EXCEPT !.step = "refused"]]
    /\ UNCHANGED <<time, present, row, bound>>

\* The foreign key is ON DELETE CASCADE.
DeleteConversation(v) ==
    /\ v \in present
    /\ present' = present \ {v}
    /\ row' = [i \in Confirmations |->
           IF row[i] # None /\ row[i].binding.conversation = v THEN None ELSE row[i]]
    /\ UNCHANGED <<time, bound, reply>>

TimeAdvances ==
    /\ time < LastTime
    /\ time' = time + 1
    /\ UNCHANGED <<present, row, bound, reply>>

ConfirmationNext ==
    \/ \E i \in Confirmations, b \in Bindings : CreatePreview(i, b)
    \/ \E r \in Replies, i \in Confirmations, b \in Bindings : Confirm(r, i, b)
    \/ \E r \in Replies : Consume(r) \/ Refuse(r)
    \/ \E v \in Conversations : DeleteConversation(v)
    \/ TimeAdvances

ConfirmationSpec == ConfirmationInit /\ [][ConfirmationNext]_confirmationVars

(* The types, and the foreign key: a row belongs to a conversation that is *)
(* there, and is bound to what it was issued for.                          *)
ConfirmationTypeOK ==
    /\ time \in 0..LastTime
    /\ present \subseteq Conversations
    /\ row \in [Confirmations -> Row \cup {None}]
    /\ bound \in [Confirmations -> Bindings \cup {None}]
    /\ reply \in [Replies ->
           [step : {"unsent", "updating", "accepted", "failed", "refused"},
            id : Confirmations \cup {None}, binding : Bindings \cup {None},
            started : 0..LastTime]]
    /\ \A i \in Confirmations : row[i] # None =>
           row[i].binding.conversation \in present /\ row[i].binding = bound[i]

InTime(i) ==
    \/ row[i].expiresAt > time
    \/ \E r \in Replies :
           /\ reply[r].step = "updating" /\ reply[r].id = i
           /\ row[i].expiresAt > reply[r].started

(* schema.sql 62-64, repositories.js 159-164: however often and            *)
(* concurrently a confirmation is replied to, one reply from the context   *)
(* it was shown in is accepted, having been sent before it expired.        *)
ConfirmationToken ==
    INSTANCE OneShotToken WITH
        Tokens <- Confirmations, Requests <- Replies, Contexts <- Bindings,
        context <- bound,
        open <- {i \in Confirmations :
                    row[i] # None /\ ~row[i].consumed /\ InTime(i)},
        uses <- [i \in Confirmations |->
            {<<r, reply[r].binding>> :
                r \in {q \in Replies : reply[q].step = "accepted" /\ reply[q].id = i}}]

ConfirmedOnce == ConfirmationToken!OneShotSpec
=============================================================================
