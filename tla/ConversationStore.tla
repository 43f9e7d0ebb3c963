------------------------- MODULE ConversationStore -------------------------
(***************************************************************************)
(* The chat history of one account, kept by the chat backend               *)
(* (be/src/server.js) in the PostgreSQL table conversations.               *)
(*                                                                         *)
(* Every write of the backend is a write of the whole history: a handler   *)
(* reads all rows of the account into memory (readHistory), changes one of *)
(* them and upserts every row it has read (writeHistory), one statement    *)
(* per row, in no particular order.  A chat call does this twice with the  *)
(* same snapshot, before and after the agent's run.  Handlers interleave   *)
(* at every await, so the rows a call writes may be older than the rows it *)
(* overwrites.                                                             *)
(*                                                                         *)
(* A call stands for one HTTP request and its messages carry its name:     *)
(* createdAt, the key by which an edit finds a message, is unique enough.  *)
(***************************************************************************)
EXTENDS Naturals, Sequences

CONSTANTS
    Calls,          \* HTTP requests of the account
    Conversations,  \* conversation ids
    Scopes,         \* MCP server selections
    EmptyScope,     \* the selection [] of a new conversation
    NoScope,        \* a request body without mcpServers
    NoEdit,         \* a request body without editMessageCreatedAt
    NoRow           \* there is no such row

ASSUME ScopeAssumption == EmptyScope \in Scopes /\ NoScope \notin Scopes
ASSUME CallAssumption == NoEdit \notin Calls /\ Conversations # {}

VARIABLES
    store,  \* the table conversations
    call,   \* the handlers, with the history each has in memory
    seen    \* history variable: the calls settled when a call read the table
vars == <<store, call, seen>>

----------------------------------------------------------------------------
(* Types *)

Message == [role : {"user", "tool_result", "assistant"}, call : Calls]
Row == [messages : Seq(Message), scope : Scopes]
Table == [Conversations -> Row \cup {NoRow}]

ASSUME RowAssumption == NoRow \notin Row

Kinds == {"chat", "create", "patch", "delete"}

\* step: where the handler waits; history and unwritten: its snapshot and the
\* upserts of writeHistory that have not reached the table yet.
Handler ==
    [step : {"idle", "persist", "run", "save", "delete", "done", "failed"},
     kind : Kinds, conv : Conversations, scope : Scopes \cup {NoScope},
     edit : Calls \cup {NoEdit}, history : Table,
     unwritten : SUBSET Conversations]

NoHistory == [k \in Conversations |-> NoRow]

Stored(table) == {k \in Conversations : table[k] # NoRow}
Active(c) == call[c].step \in {"persist", "run", "save", "delete"}
Settled(c) == /\ call[c].step \in {"done", "failed"}
              /\ call[c].unwritten = {}

----------------------------------------------------------------------------
(* The rows a handler makes in memory *)

NewRow(scope) == [messages |-> <<>>, scope |-> scope]

\* The position of the user message of call e in a conversation, 0 if none.
EditIndex(messages, e) ==
    LET at == {i \in DOMAIN messages : messages[i] = [role |-> "user", call |-> e]}
    IN IF at = {} THEN 0 ELSE CHOOSE i \in at : \A j \in at : i <= j

Editable(row) ==
    IF row = NoRow THEN {} ELSE {e \in Calls : EditIndex(row.messages, e) # 0}

\* Mutant: the edited message itself is kept.
TruncatedAfter(messages, e) ==
    LET i == EditIndex(messages, e)
    IN IF i = 0 THEN messages ELSE SubSeq(messages, 1, i)

Truncated(messages, e) ==
    LET i == EditIndex(messages, e)
    IN IF i = 0 THEN messages ELSE SubSeq(messages, 1, i - 1)

\* The selection of the request, the stored one without it.
Selected(row, selection) == IF selection = NoScope THEN row.scope ELSE selection

\* Mutant: an existing conversation is started again.
PreparedAnew(row, selection, e) ==
    NewRow(Selected(IF row = NoRow THEN NewRow(EmptyScope) ELSE row, selection))

\* The conversation of a chat call as it is persisted before the agent runs.
Prepared(row, selection, e) ==
    IF row = NoRow THEN NewRow(Selected(NewRow(EmptyScope), selection))
    ELSE [messages |-> Truncated(row.messages, e),
          scope |-> Selected(row, selection)]

\* Mutant: the answer is stored under Gemini's name for its role.
TurnOfModel(c, tools) ==
    <<[role |-> "user", call |-> c]>>
    \o [i \in 1..tools |-> [role |-> "tool_result", call |-> c]]
    \o <<[role |-> "model", call |-> c]>>

\* What a chat call appends once its agent has answered.
Turn(c, tools) ==
    <<[role |-> "user", call |-> c]>>
    \o [i \in 1..tools |-> [role |-> "tool_result", call |-> c]]
    \o <<[role |-> "assistant", call |-> c]>>

----------------------------------------------------------------------------
(* Handlers *)

Init ==
    /\ store = NoHistory
    /\ call \in [Calls -> [step : {"idle"}, kind : {"chat"},
                           conv : {CHOOSE k \in Conversations : TRUE},
                           scope : {NoScope}, edit : {NoEdit},
                           history : {NoHistory}, unwritten : {{}}]]
    /\ seen = [c \in Calls |-> {}]

\* readHistory and the change made in memory; writeHistory sends one upsert
\* for every row of the snapshot.
Open(c, kind, k, selection, e, row) ==
    LET history == [store EXCEPT ![k] = row]
    IN /\ call[c].step = "idle"
       /\ call' = [call EXCEPT ![c] =
              [step |-> "persist", kind |-> kind, conv |-> k,
               scope |-> selection, edit |-> e, history |-> history,
               unwritten |-> Stored(history)]]
       /\ seen' = [seen EXCEPT ![c] = {d \in Calls : Settled(d)}]
       /\ UNCHANGED store

\* POST /api/chat: a conversation id the account does not have yet starts a
\* new conversation, whoever chose the id.  An edit of a message that the
\* conversation does not hold changes nothing and is left out.
Chat(c) ==
    \E k \in Conversations, selection \in Scopes \cup {NoScope},
       e \in Calls \cup {NoEdit} :
        /\ e \in Editable(store[k]) \cup {NoEdit}
        /\ Open(c, "chat", k, selection, e, Prepared(store[k], selection, e))

\* Mutant: an id is free again once its conversation is deleted.
FreeId(k) == store[k] = NoRow

\* crypto.randomUUID(): an id that nobody uses, has used or will send.
FreshId(k) == /\ store[k] = NoRow
              /\ \A d \in Calls : call[d].step # "idle" => call[d].conv # k

\* POST /api/chat/conversations
Create(c) ==
    \E k \in Conversations :
        /\ FreshId(k)
        /\ Open(c, "create", k, NoScope, NoEdit, NewRow(EmptyScope))

\* PATCH /api/chat/conversations/:conversationId
Patch(c) ==
    \E k \in Stored(store), selection \in Scopes \cup {NoScope} :
        Open(c, "patch", k, selection, NoEdit,
             [store[k] EXCEPT !.scope = Selected(store[k], selection)])

\* The handler returns; nothing refers to its snapshot any more.
Returned(h, outcome) == [h EXCEPT !.step = outcome, !.history = NoHistory]

\* The handler after one more upsert of writeHistory has returned.
Resumed(h) ==
    IF h.unwritten # {} THEN h
    ELSE CASE h.step = "failed" -> Returned(h, "failed")
           [] h.step = "persist" /\ h.kind = "chat" -> [h EXCEPT !.step = "run"]
           [] OTHER -> Returned(h, "done")

\* Mutant: every upsert of a writeHistory writes the conversation of the call.
UpsertOwnRow(c, k) ==
    /\ k \in call[c].unwritten
    /\ store' = [store EXCEPT ![k] = call[c].history[call[c].conv]]
    /\ call' = [call EXCEPT ![c] =
           Resumed([call[c] EXCEPT !.unwritten = @ \ {k}])]
    /\ UNCHANGED seen

\* One upsert: the row becomes what the snapshot holds.  The upserts that are
\* still under way when another one fails reach the table all the same.
Upsert(c, k) ==
    /\ k \in call[c].unwritten
    /\ store' = [store EXCEPT ![k] = call[c].history[k]]
    /\ call' = [call EXCEPT ![c] =
           Resumed([call[c] EXCEPT !.unwritten = @ \ {k}])]
    /\ UNCHANGED seen

\* An upsert fails: Promise.all rejects at once and the handler answers with
\* an error.
UpsertFails(c, k) ==
    /\ k \in call[c].unwritten
    /\ call' = [call EXCEPT ![c] =
           Resumed([call[c] EXCEPT !.unwritten = @ \ {k}, !.step = "failed"])]
    /\ UNCHANGED <<store, seen>>

\* The agent answers, having used some tools: the turn goes into the snapshot
\* read before the run, and the whole snapshot is written again.
Answer(c, tools) ==
    LET k == call[c].conv
        history == [call[c].history EXCEPT ![k].messages = @ \o Turn(c, tools)]
    IN /\ call[c].step = "run"
       /\ call' = [call EXCEPT ![c].step = "save", ![c].history = history,
                               ![c].unwritten = Stored(history)]
       /\ UNCHANGED <<store, seen>>

\* The agent fails, or the client closes the response and aborts it.
AgentFails(c) ==
    /\ call[c].step = "run"
    /\ call' = [call EXCEPT ![c] = Returned(@, "failed")]
    /\ UNCHANGED <<store, seen>>

\* DELETE /api/chat/history/:conversationId looks the conversation up, then
\* deletes the row, wherever it may have gone in between.
Delete(c) ==
    \E k \in Stored(store) :
        /\ call[c].step = "idle"
        /\ call' = [call EXCEPT ![c].step = "delete", ![c].kind = "delete",
                                ![c].conv = k]
        /\ seen' = [seen EXCEPT ![c] = {d \in Calls : Settled(d)}]
        /\ UNCHANGED store

DeleteRow(c) ==
    /\ call[c].step = "delete"
    /\ store' = [store EXCEPT ![call[c].conv] = NoRow]
    /\ call' = [call EXCEPT ![c].step = "done"]
    /\ UNCHANGED seen

\* The backend stops: handlers and their unsent upserts are gone.
Restart ==
    /\ \E c \in Calls : Active(c) \/ call[c].unwritten # {}
    /\ call' = [c \in Calls |->
           Returned([call[c] EXCEPT !.unwritten = {}],
                    IF Active(c) THEN "failed" ELSE call[c].step)]
    /\ UNCHANGED <<store, seen>>

MaxTools == 1  \* bound on the tool results of a turn

Next ==
    \/ \E c \in Calls :
        \/ Chat(c) \/ Create(c) \/ Patch(c) \/ Delete(c) \/ DeleteRow(c)
        \/ \E k \in Conversations : Upsert(c, k) \/ UpsertFails(c, k)
        \/ \E tools \in 0..MaxTools : Answer(c, tools)
        \/ AgentFails(c)
    \/ Restart

Spec == Init /\ [][Next]_vars

----------------------------------------------------------------------------
(* Properties *)

(* The table, the handlers and their snapshots stay within their types.    *)
TypeOK ==
    /\ store \in Table
    /\ call \in [Calls -> Handler]
    /\ seen \in [Calls -> SUBSET Calls]

\* A question is followed by its own tool results and its own answer.
Answered(messages, i) ==
    \E j \in (i + 1)..Len(messages) :
        /\ messages[j] = [role |-> "assistant", call |-> messages[i].call]
        /\ \A n \in (i + 1)..(j - 1) :
               messages[n] = [role |-> "tool_result", call |-> messages[i].call]

\* A message is a question or belongs to a question before it.
Asked(messages, i) ==
    \E j \in 1..i : messages[j] = [role |-> "user", call |-> messages[i].call]

WholeTurns(messages) ==
    \A i \in 1..Len(messages) :
        /\ Asked(messages, i)
        /\ messages[i].role = "user" => Answered(messages, i)

(* The table never shows half a turn: a question is stored together with   *)
(* its answer or not at all, whatever fails, overlaps or is edited.  This  *)
(* is what the user message pushed only after the first writeHistory is    *)
(* for (server.js:832-841).                                                *)
TurnsAreWhole ==
    \A k \in Stored(store) : WholeTurns(store[k].messages)

\* Neither call had settled when the other read the table.
Overlap(c, d) ==
    /\ c # d
    /\ {call[c].step, call[d].step} \cap {"idle"} = {}
    /\ c \notin seen[d] /\ d \notin seen[c]

\* The conversation's own user asked for the turn to go.
Discards(d, k) ==
    /\ call[d].step # "idle" /\ call[d].conv = k
    /\ call[d].kind = "delete" \/ call[d].edit # NoEdit

(* An answer that was delivered stays in its conversation until the user   *)
(* deletes the conversation or edits one of its messages: only a call that *)
(* overlaps the answering one can lose it (lost update of writeHistory).   *)
AnswersSurvive ==
    \A c \in Calls :
        call[c].kind = "chat" /\ call[c].step = "done" =>
            \/ /\ call[c].conv \in Stored(store)
               /\ \E i \in DOMAIN store[call[c].conv].messages :
                      store[call[c].conv].messages[i]
                          = [role |-> "assistant", call |-> c]
            \/ \E d \in Calls : Overlap(c, d) \/ Discards(d, call[c].conv)

(* A deleted conversation comes back only by the hand of a call that       *)
(* overlaps the deletion, or of a later chat that names its id.            *)
DeletedStaysGone ==
    \A d \in Calls :
        /\ call[d].kind = "delete" /\ call[d].step = "done"
        /\ call[d].conv \in Stored(store)
        => \E c \in Calls :
               \/ Overlap(c, d)
               \/ /\ call[c].step # "idle" /\ call[c].kind = "chat"
                  /\ call[c].conv = call[d].conv

(* writeHistory rewrites every conversation of the account; a row changes  *)
(* without a call of its own only when the writer's snapshot is shared     *)
(* with a call it overlaps.                                                *)
BystandersKeepTheirRows ==
    [][\A k \in Conversations :
          store'[k] # store[k] =>
              \E c \in Calls :
                  /\ call[c].step # "idle" /\ ~Settled(c)
                  /\ call[c].conv = k \/ \E d \in Calls : Overlap(c, d)]_vars

\* The call has persisted its selection and is over.
Selection(c) == /\ call[c].kind = "chat" /\ call[c].scope # NoScope
                /\ call[c].step = "done"

(* server.js:826-827, "Store the MCP scope with the conversation so        *)
(* reopening or refreshing the page restores the exact tool selection used *)
(* for this chat": as long as no other call names the conversation, it     *)
(* holds the selection of the last chat.  A chat on another conversation   *)
(* overwrites it with the row of its stale snapshot.                       *)
SelectionIsRestored ==
    \A c \in Calls :
        Selection(c) /\ (\A d \in Calls \ {c} :
            call[d].step # "idle" /\ call[d].conv = call[c].conv => d \in seen[c])
        => /\ call[c].conv \in Stored(store)
           /\ store[call[c].conv].scope = call[c].scope
=============================================================================
