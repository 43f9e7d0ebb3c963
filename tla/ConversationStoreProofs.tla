----------------------- MODULE ConversationStoreProofs -----------------------
(* Proofs about ConversationStore, for every value of its constants. *)
EXTENDS ConversationStore, TLAPS, SequenceTheorems, WellFoundedInduction

-----------------------------------------------------------------------------
(* Messages: truncating a history at a question, or appending a turn,      *)
(* leaves whole turns.                                                     *)

LEMMA LeastNatural ==
    ASSUME NEW S, S \subseteq Nat, S # {}
    PROVE  \E x \in S : \A y \in S : x <= y
<1>1. IsWellFoundedOn(OpToRel(<, Nat), Nat)
  BY NatLessThanWellFounded
<1>2. PICK x \in S : \A y \in S : ~(<<y, x>> \in OpToRel(<, Nat))
  BY <1>1, WFMin
<1>3. ASSUME NEW y \in S PROVE x <= y
  <2>1. ~(y < x)
    BY <1>2 DEF OpToRel
  <2> QED
    BY <2>1
<1> QED
  BY <1>3

LEMMA EditIndexIsAQuestion ==
    ASSUME NEW m \in Seq(Message), NEW e
    PROVE  LET i == EditIndex(m, e) IN
           i = 0 \/ (i \in 1..Len(m) /\ m[i] = [role |-> "user", call |-> e])
<1> DEFINE at == {i \in DOMAIN m : m[i] = [role |-> "user", call |-> e]}
<1>1. EditIndex(m, e) = IF at = {} THEN 0 ELSE CHOOSE i \in at : \A j \in at : i <= j
  BY DEF EditIndex
<1>2. at \subseteq 1..Len(m) /\ at \subseteq Nat
  OBVIOUS
<1>3. CASE at # {}
  <2>1. \E i \in at : \A j \in at : i <= j
    BY <1>2, <1>3, LeastNatural
  <2>2. EditIndex(m, e) \in at
    BY <1>1, <1>3, <2>1
  <2> QED
    BY <1>2, <2>2
<1> QED
  BY <1>1, <1>3

LEMMA TruncatedShape ==
    ASSUME NEW m \in Seq(Message), NEW e
    PROVE  /\ Truncated(m, e) \in Seq(Message)
           /\ \E n \in 0..Len(m) :
                  /\ Len(Truncated(m, e)) = n
                  /\ \A i \in 1..n : Truncated(m, e)[i] = m[i]
                  /\ n = Len(m) \/ m[n + 1].role = "user"
<1> DEFINE i == EditIndex(m, e)
<1>1. i = 0 \/ (i \in 1..Len(m) /\ m[i] = [role |-> "user", call |-> e])
  BY EditIndexIsAQuestion
<1>2. Truncated(m, e) = IF i = 0 THEN m ELSE SubSeq(m, 1, i - 1)
  BY DEF Truncated
<1>3. Len(m) \in Nat
  OBVIOUS
<1> HIDE DEF i
<1>4. CASE i = 0
  BY <1>2, <1>3, <1>4
<1>5. CASE i # 0
  <2>1. i \in 1..Len(m) /\ m[i].role = "user" /\ i - 1 \in 0..Len(m)
    BY <1>1, <1>3, <1>5
  <2>2. /\ SubSeq(m, 1, i - 1) \in Seq(Message)
        /\ Len(SubSeq(m, 1, i - 1)) = i - 1
        /\ \A j \in 1..(i - 1) : SubSeq(m, 1, i - 1)[j] = m[j]
    BY <1>3, <2>1
  <2>3. m[(i - 1) + 1].role = "user"
    BY <2>1
  <2> QED
    BY <1>2, <1>5, <2>1, <2>2, <2>3
<1> QED
  BY <1>4, <1>5

LEMMA TruncatedIsWhole ==
    ASSUME NEW m \in Seq(Message), NEW e, WholeTurns(m)
    PROVE  WholeTurns(Truncated(m, e))
<1> DEFINE s == Truncated(m, e)
<1>1. PICK n \in 0..Len(m) :
        /\ Len(s) = n
        /\ \A i \in 1..n : s[i] = m[i]
        /\ n = Len(m) \/ m[n + 1].role = "user"
  BY TruncatedShape
<1>2. Len(m) \in Nat
  OBVIOUS
<1> HIDE DEF s
<1>3. ASSUME NEW i \in 1..n PROVE Asked(s, i)
  <2>1. Asked(m, i)
    BY <1>2 DEF WholeTurns
  <2> QED
    BY <1>1, <2>1 DEF Asked
<1>4. ASSUME NEW i \in 1..n, s[i].role = "user" PROVE Answered(s, i)
  <2>1. m[i].role = "user"
    BY <1>1, <1>4
  <2>2. PICK j \in (i + 1)..Len(m) :
          /\ m[j] = [role |-> "assistant", call |-> m[i].call]
          /\ \A k \in (i + 1)..(j - 1) :
                 m[k] = [role |-> "tool_result", call |-> m[i].call]
    BY <1>2, <2>1 DEF WholeTurns, Answered
  <2>3. j <= n
    <3> SUFFICES ASSUME j > n PROVE FALSE
      BY <1>2
    <3>1. n # Len(m) /\ m[n + 1].role = "user"
      BY <1>1, <1>2
    <3>2. n + 1 \in (i + 1)..j
      BY <1>2
    <3>3. m[n + 1].role \in {"assistant", "tool_result"}
      BY <2>2, <3>2
    <3> QED
      BY <3>1, <3>3
  <2>4. j \in (i + 1)..n
    BY <2>3
  <2>5. s[j] = m[j] /\ s[i] = m[i] /\ \A k \in (i + 1)..(j - 1) : s[k] = m[k]
    BY <1>1, <2>4
  <2> QED
    BY <1>1, <2>2, <2>4, <2>5 DEF Answered
<1> QED
  BY <1>1, <1>3, <1>4 DEF s, WholeTurns

LEMMA TurnShape ==
    ASSUME NEW c \in Calls, NEW tools \in Nat
    PROVE  /\ Turn(c, tools) \in Seq(Message)
           /\ Len(Turn(c, tools)) = tools + 2
           /\ Turn(c, tools)[1] = [role |-> "user", call |-> c]
           /\ Turn(c, tools)[tools + 2] = [role |-> "assistant", call |-> c]
           /\ \A i \in 2..(tools + 1) :
                  Turn(c, tools)[i] = [role |-> "tool_result", call |-> c]
<1> DEFINE q == [role |-> "user", call |-> c]
           t == [role |-> "tool_result", call |-> c]
           a == [role |-> "assistant", call |-> c]
           used == [i \in 1..tools |-> t]
<1>1. q \in Message /\ t \in Message /\ a \in Message
  BY DEF Message
<1>2. Turn(c, tools) = <<q>> \o used \o <<a>>
  BY DEF Turn
<1> HIDE DEF q, t, a
<1>3. used \in Seq(Message) /\ Len(used) = tools /\ \A i \in 1..tools : used[i] = t
  BY <1>1
<1> HIDE DEF used
<1>4. <<q>> \in Seq(Message) /\ <<a>> \in Seq(Message)
      /\ Len(<<q>>) = 1 /\ Len(<<a>>) = 1 /\ <<q>>[1] = q /\ <<a>>[1] = a
  BY <1>1
<1> DEFINE u == <<q>> \o used
<1>5. /\ u \in Seq(Message) /\ Len(u) = tools + 1
      /\ u[1] = q /\ \A i \in 2..(tools + 1) : u[i] = t
  BY <1>3, <1>4
<1> HIDE DEF u
<1>6. /\ u \o <<a>> \in Seq(Message) /\ Len(u \o <<a>>) = tools + 2
      /\ (u \o <<a>>)[tools + 2] = a
      /\ \A i \in 1..(tools + 1) : (u \o <<a>>)[i] = u[i]
  BY <1>4, <1>5
<1>7. Turn(c, tools) = u \o <<a>>
  BY <1>2 DEF u
<1>8. 1 \in 1..(tools + 1)
  OBVIOUS
<1> QED
  BY <1>5, <1>6, <1>7, <1>8 DEF q, t, a

LEMMA TurnIsWhole ==
    ASSUME NEW m \in Seq(Message), WholeTurns(m), NEW c \in Calls, NEW tools \in Nat
    PROVE  WholeTurns(m \o Turn(c, tools))
<1> DEFINE t == Turn(c, tools)
           s == m \o t
           n == Len(m)
<1>1. /\ t \in Seq(Message) /\ Len(t) = tools + 2
      /\ t[1] = [role |-> "user", call |-> c]
      /\ t[tools + 2] = [role |-> "assistant", call |-> c]
      /\ \A i \in 2..(tools + 1) : t[i] = [role |-> "tool_result", call |-> c]
  BY TurnShape
<1> HIDE DEF t
<1>2. /\ n \in Nat /\ Len(s) = n + tools + 2
      /\ \A i \in 1..n : s[i] = m[i]
      /\ \A i \in 1..(tools + 2) : s[n + i] = t[i]
  BY <1>1
<1> HIDE DEF s
<1>3. /\ s[n + 1] = [role |-> "user", call |-> c]
      /\ s[n + (tools + 2)] = [role |-> "assistant", call |-> c]
      /\ \A k \in (n + 2)..(n + tools + 1) : s[k] = [role |-> "tool_result", call |-> c]
  <2>1. 1 \in 1..(tools + 2) /\ tools + 2 \in 1..(tools + 2)
    OBVIOUS
  <2>2. ASSUME NEW k \in (n + 2)..(n + tools + 1)
        PROVE  s[k] = [role |-> "tool_result", call |-> c]
    <3>1. PICK i \in 2..(tools + 1) : k = n + i
      <4>1. k - n \in 2..(tools + 1) /\ k = n + (k - n)
        BY <1>2
      <4> QED
        BY <4>1
    <3>2. s[n + i] = t[i]
      BY <1>2, <3>1
    <3> QED
      BY <1>1, <3>1, <3>2
  <2> QED
    BY <1>1, <1>2, <2>1, <2>2
<1>4. ASSUME NEW i \in 1..n
      PROVE  Asked(s, i) /\ (s[i].role = "user" => Answered(s, i))
  <2>1. Asked(s, i)
    <3>1. Asked(m, i)
      BY <1>2 DEF WholeTurns
    <3> QED
      BY <1>2, <3>1 DEF Asked
  <2>2. ASSUME s[i].role = "user" PROVE Answered(s, i)
    <3>1. PICK j \in (i + 1)..n :
            /\ m[j] = [role |-> "assistant", call |-> m[i].call]
            /\ \A k \in (i + 1)..(j - 1) :
                   m[k] = [role |-> "tool_result", call |-> m[i].call]
      BY <1>2, <2>2 DEF WholeTurns, Answered
    <3>2. s[j] = m[j] /\ s[i] = m[i] /\ \A k \in (i + 1)..(j - 1) : s[k] = m[k]
      BY <1>2
    <3>3. j \in (i + 1)..Len(s)
      BY <1>2
    <3> QED
      BY <3>1, <3>2, <3>3 DEF Answered
  <2> QED
    BY <2>1, <2>2
<1>5. ASSUME NEW i \in (n + 1)..Len(s)
      PROVE  Asked(s, i) /\ (s[i].role = "user" => Answered(s, i))
  <2>1. i = n + 1 \/ i = n + (tools + 2) \/ i \in (n + 2)..(n + tools + 1)
    BY <1>2
  <2>2. s[i].call = c /\ (s[i].role = "user" => i = n + 1)
    BY <1>3, <2>1
  <2>3. Asked(s, i)
    <3>1. n + 1 \in 1..i
      BY <1>2
    <3> QED
      BY <1>3, <2>2, <3>1 DEF Asked
  <2>4. ASSUME i = n + 1 PROVE Answered(s, i)
    <3>1. n + (tools + 2) \in (i + 1)..Len(s)
      BY <1>2, <2>4
    <3>2. \A k \in (i + 1)..((n + (tools + 2)) - 1) : k \in (n + 2)..(n + tools + 1)
      BY <1>2, <2>4
    <3> QED
      BY <1>3, <2>2, <3>1, <3>2 DEF Answered
  <2> QED
    BY <2>2, <2>3, <2>4
<1>6. \A i \in 1..Len(s) : i \in 1..n \/ i \in (n + 1)..Len(s)
  BY <1>2
<1> QED
  BY <1>4, <1>5, <1>6 DEF s, t, WholeTurns

-----------------------------------------------------------------------------
(* The inductive invariant, in two layers.  IInv: what a handler can still *)
(* write is a history of whole turns.  CInv: what it writes is what a call *)
(* that does not overlap it has left.                                      *)

(* The history of a handler can still reach the table. *)
Writes(h) == h.step \in {"persist", "run", "save"} \/ h.unwritten # {}

WholeTable(table) ==
    \A k \in Conversations : table[k] # NoRow => WholeTurns(table[k].messages)

Consistent(h) ==
    /\ h.unwritten \subseteq Stored(h.history)
    /\ h.step \in {"idle", "run", "delete", "done"} => h.unwritten = {}
    /\ h.step \in {"persist", "run", "save"} => h.history[h.conv] # NoRow
    /\ h.step \in {"run", "save"} => h.kind = "chat"
    /\ h.step = "delete" => h.kind = "delete"
    /\ h.kind = "delete" => ~Writes(h)
    /\ WholeTable(h.history)

(* What a call has seen settled stays settled. *)
SeenSettled == \A c \in Calls : \A d \in seen[c] : Settled(d)

IInv ==
    /\ TypeOK
    /\ WholeTable(store)
    /\ \A c \in Calls : Consistent(call[c])
    /\ SeenSettled

Answers(row, c) ==
    /\ row # NoRow
    /\ \E i \in DOMAIN row.messages : row.messages[i] = [role |-> "assistant", call |-> c]

Lost(c) == \E d \in Calls : Overlap(c, d) \/ Discards(d, call[c].conv)

Renewed(d) ==
    \E c \in Calls :
        \/ Overlap(c, d)
        \/ call[c].step # "idle" /\ call[c].kind = "chat" /\ call[c].conv = call[d].conv

(* An answer is on its way to the table, or in it and in every history     *)
(* that can overwrite it.                                                  *)
Delivered(c) ==
    LET k == call[c].conv IN
    call[c].kind = "chat" /\ ~Lost(c) =>
        /\ call[c].step = "save" =>
               /\ Answers(call[c].history[k], c)
               /\ k \in call[c].unwritten \/ Answers(store[k], c)
        /\ call[c].step = "done" =>
               /\ Answers(store[k], c)
               /\ \A d \in Calls : Writes(call[d]) => Answers(call[d].history[k], c)

(* A deleted row is in no history that could bring it back. *)
Gone(d) ==
    LET k == call[d].conv IN
    call[d].kind = "delete" /\ call[d].step = "done" /\ ~Renewed(d) =>
        /\ store[k] = NoRow
        /\ \A c \in Calls : Writes(call[c]) => call[c].history[k] = NoRow

(* A handler that overlaps no other has the other rows as they are. *)
Unshared(c) ==
    Writes(call[c]) /\ (\A d \in Calls : ~Overlap(c, d)) =>
        \A k \in Conversations \ {call[c].conv} : call[c].history[k] = store[k]

CInv == IInv /\ \A c \in Calls : Delivered(c) /\ Gone(c) /\ Unshared(c)

LEMMA InitIInv == Init => IInv
<1> SUFFICES ASSUME Init PROVE IInv
  OBVIOUS
<1>1. NoHistory \in Table /\ Stored(NoHistory) = {} /\ WholeTable(NoHistory)
  BY DEF NoHistory, Table, Stored, WholeTable
<1>2. (CHOOSE k \in Conversations : TRUE) \in Conversations
  BY CallAssumption
<1>3. ASSUME NEW c \in Calls
      PROVE  /\ call[c] \in Handler /\ call[c].step = "idle" /\ call[c].kind = "chat"
             /\ call[c].history = NoHistory /\ call[c].unwritten = {}
  BY <1>1, <1>2 DEF Init, Handler, Kinds
<1>4. \A c \in Calls : Consistent(call[c])
  BY <1>1, <1>3 DEF Consistent, Writes
<1>5. call \in [Calls -> Handler]
  BY <1>3 DEF Init
<1>6. \A c \in Calls : seen[c] = {}
  BY DEF Init
<1> QED
  BY <1>1, <1>4, <1>5, <1>6 DEF Init, IInv, TypeOK, SeenSettled

(* One handler that has not settled moves on. *)
LEMMA OneHandlerKeeps ==
    ASSUME IInv, NEW c \in Calls, ~Settled(c), NEW h \in Handler, Consistent(h),
           call' = [call EXCEPT ![c] = h], store' \in Table, WholeTable(store)',
           \/ seen' = seen
           \/ seen' = [seen EXCEPT ![c] = {d \in Calls : Settled(d)}]
    PROVE  IInv'
<1>1. call' \in [Calls -> Handler] /\ call'[c] = h
      /\ \A d \in Calls \ {c} : call'[d] = call[d]
  BY DEF IInv, TypeOK
<1>2. \A d \in Calls : Settled(d) => Settled(d)'
  BY <1>1 DEF Settled
<1>3. seen' \in [Calls -> SUBSET Calls] /\ \A d \in Calls : \A x \in seen'[d] : Settled(x)
  <2>1. {d \in Calls : Settled(d)} \subseteq Calls
    OBVIOUS
  <2> QED
    BY <2>1 DEF IInv, TypeOK, SeenSettled
<1>4. SeenSettled'
  BY <1>2, <1>3 DEF SeenSettled
<1>5. \A d \in Calls : Consistent(call'[d])
  BY <1>1 DEF IInv
<1>6. \A d \in Calls : Consistent(call[d])'
  BY <1>5 DEF Consistent, Stored, Writes, WholeTable
<1> QED
  BY <1>1, <1>3, <1>4, <1>6 DEF IInv, TypeOK

(* The handler of a call that opens, and what it has made of the table. *)
Opened(kind, k, selection, e, row) ==
    [step |-> "persist", kind |-> kind, conv |-> k, scope |-> selection, edit |-> e,
     history |-> [store EXCEPT ![k] = row], unwritten |-> Stored([store EXCEPT ![k] = row])]

LEMMA PreparedFacts ==
    ASSUME NEW row \in Row \cup {NoRow}, row # NoRow => WholeTurns(row.messages),
           NEW selection \in Scopes \cup {NoScope}, NEW e
    PROVE  /\ Prepared(row, selection, e) \in Row
           /\ WholeTurns(Prepared(row, selection, e).messages)
           /\ Prepared(row, selection, e).messages =
                  IF row = NoRow THEN <<>> ELSE Truncated(row.messages, e)
<1>1. WholeTurns(<<>>)
  BY DEF WholeTurns
<1>2. NewRow(EmptyScope) \in Row /\ NewRow(EmptyScope).scope = EmptyScope
  BY ScopeAssumption DEF NewRow, Row
<1>3. CASE row = NoRow
  <2>1. Selected(NewRow(EmptyScope), selection) \in Scopes
    BY <1>2, ScopeAssumption DEF Selected
  <2> QED
    BY <1>1, <1>3, <2>1 DEF Prepared, NewRow, Row
<1>4. CASE row # NoRow
  <2>1. row \in Row /\ row.messages \in Seq(Message) /\ row.scope \in Scopes
    BY <1>4 DEF Row
  <2>2. Selected(row, selection) \in Scopes
    BY <2>1 DEF Selected
  <2>3. Truncated(row.messages, e) \in Seq(Message) /\ WholeTurns(Truncated(row.messages, e))
    BY <1>4, <2>1, TruncatedShape, TruncatedIsWhole
  <2> QED
    BY <1>4, <2>2, <2>3 DEF Prepared, Row
<1> QED
  BY <1>3, <1>4

(* The rows of other conversations are those of the table, an answer is    *)
(* only cut off by an edit, and an id is only used again by a chat.        *)
TakenOver(h) ==
    /\ \A q \in Conversations \ {h.conv} : h.history[q] = store[q]
    /\ h.edit = NoEdit => \A d \in Calls :
           Answers(store[h.conv], d) => Answers(h.history[h.conv], d)
    /\ h.kind # "chat" =>
           \/ store[h.conv] # NoRow
           \/ \A d \in Calls : call[d].step # "idle" => call[d].conv # h.conv

(* Calls that open do so with a consistent handler. *)
OpensWith(c, h) ==
    /\ call[c].step = "idle"
    /\ h \in Handler /\ Consistent(h)
    /\ h.step = "persist" \/ (h.step = "delete" /\ h.kind = "delete")
    /\ call' = [call EXCEPT ![c] = h]
    /\ seen' = [seen EXCEPT ![c] = {d \in Calls : Settled(d)}]
    /\ store' = store
    /\ h.step = "persist" => TakenOver(h)

LEMMA OpenOpens ==
    ASSUME IInv, NEW c \in Calls, NEW kind \in {"chat", "create", "patch"},
           NEW k \in Conversations, NEW selection \in Scopes \cup {NoScope},
           NEW e \in Calls \cup {NoEdit}, NEW row \in Row, WholeTurns(row.messages),
           Open(c, kind, k, selection, e, row),
           e = NoEdit => \A d \in Calls : Answers(store[k], d) => Answers(row, d),
           kind # "chat" => \/ store[k] # NoRow
                            \/ \A d \in Calls : call[d].step # "idle" => call[d].conv # k
    PROVE  OpensWith(c, Opened(kind, k, selection, e, row))
<1> DEFINE history == [store EXCEPT ![k] = row]
           h == Opened(kind, k, selection, e, row)
<1>1. /\ call[c].step = "idle" /\ call' = [call EXCEPT ![c] = h]
      /\ seen' = [seen EXCEPT ![c] = {d \in Calls : Settled(d)}] /\ store' = store
  BY DEF Open, Opened
<1>2. /\ history \in Table /\ history[k] = row /\ row # NoRow
      /\ \A q \in Conversations \ {k} : history[q] = store[q]
  BY RowAssumption DEF IInv, TypeOK, Table
<1>3. WholeTable(history)
  BY <1>2 DEF IInv, WholeTable
<1>4. /\ h.step = "persist" /\ h.kind = kind /\ h.conv = k /\ h.edit = e
      /\ h.history = history /\ h.unwritten = Stored(history)
  BY DEF Opened
<1>5. h \in Handler
  <2>1. Stored(history) \subseteq Conversations
    BY DEF Stored
  <2> QED
    BY <1>2, <2>1 DEF Opened, Handler, Kinds
<1> HIDE DEF h, history
<1>6. Consistent(h)
  BY <1>2, <1>3, <1>4 DEF Consistent
<1>7. TakenOver(h)
  BY <1>2, <1>4 DEF TakenOver
<1>8. OpensWith(c, h)
  BY <1>1, <1>4, <1>5, <1>6, <1>7 DEF OpensWith
<1> QED
  BY <1>8 DEF h

LEMMA ChatOpens ==
    ASSUME IInv, NEW c \in Calls, Chat(c)
    PROVE  \E h : OpensWith(c, h)
<1>1. PICK k \in Conversations, selection \in Scopes \cup {NoScope}, e \in Calls \cup {NoEdit} :
        Open(c, "chat", k, selection, e, Prepared(store[k], selection, e))
  BY DEF Chat
<1> DEFINE row == Prepared(store[k], selection, e)
<1>2. store[k] \in Row \cup {NoRow} /\ (store[k] # NoRow => WholeTurns(store[k].messages))
  BY DEF IInv, TypeOK, Table, WholeTable
<1>3. /\ row \in Row /\ WholeTurns(row.messages)
      /\ row.messages = IF store[k] = NoRow THEN <<>> ELSE Truncated(store[k].messages, e)
  BY <1>2, PreparedFacts
<1> HIDE DEF row
<1>4. ASSUME e = NoEdit, NEW d \in Calls, Answers(store[k], d) PROVE Answers(row, d)
  <2>1. store[k] \in Row /\ store[k].messages \in Seq(Message)
    BY <1>2, <1>4 DEF Answers, Row
  <2>2. EditIndex(store[k].messages, e) = 0
    <3>1. \A i \in DOMAIN store[k].messages : store[k].messages[i] \in Message
      BY <2>1
    <3>2. \A i \in DOMAIN store[k].messages :
            store[k].messages[i] # [role |-> "user", call |-> e]
      BY <1>4, <3>1, CallAssumption DEF Message
    <3> QED
      BY <3>2 DEF EditIndex
  <2>3. row.messages = store[k].messages
    BY <1>3, <1>4, <2>2 DEF Truncated, Answers
  <2> QED
    BY <1>3, <1>4, <2>3, RowAssumption DEF Answers
<1>5. Open(c, "chat", k, selection, e, row)
  BY <1>1 DEF row
<1> QED
  BY <1>3, <1>4, <1>5, OpenOpens

LEMMA CreateOpens ==
    ASSUME IInv, NEW c \in Calls, Create(c)
    PROVE  \E h : OpensWith(c, h)
<1>1. PICK k \in Conversations :
        FreshId(k) /\ Open(c, "create", k, NoScope, NoEdit, NewRow(EmptyScope))
  BY DEF Create
<1>2. NewRow(EmptyScope) \in Row /\ NewRow(EmptyScope).messages = <<>>
  BY ScopeAssumption DEF NewRow, Row
<1>3. WholeTurns(NewRow(EmptyScope).messages)
  BY <1>2 DEF WholeTurns
<1>4. \A d \in Calls : ~Answers(store[k], d)
  BY <1>1 DEF FreshId, Answers
<1>5. \A d \in Calls : call[d].step # "idle" => call[d].conv # k
  BY <1>1 DEF FreshId
<1> QED
  BY <1>1, <1>2, <1>3, <1>4, <1>5, OpenOpens

LEMMA PatchOpens ==
    ASSUME IInv, NEW c \in Calls, Patch(c)
    PROVE  \E h : OpensWith(c, h)
<1>1. PICK k \in Stored(store), selection \in Scopes \cup {NoScope} :
        Open(c, "patch", k, selection, NoEdit,
             [store[k] EXCEPT !.scope = Selected(store[k], selection)])
  BY DEF Patch
<1> DEFINE row == [store[k] EXCEPT !.scope = Selected(store[k], selection)]
<1>2. k \in Conversations /\ store[k] # NoRow /\ store[k] \in Row
      /\ WholeTurns(store[k].messages)
  BY DEF Stored, IInv, TypeOK, Table, WholeTable
<1>3. Selected(store[k], selection) \in Scopes
  BY <1>2 DEF Selected, Row
<1>4. row \in Row /\ row.messages = store[k].messages
  BY <1>2, <1>3 DEF Row
<1>5. Open(c, "patch", k, selection, NoEdit, row)
  BY <1>1
<1> HIDE DEF row
<1>6. \A d \in Calls : Answers(store[k], d) => Answers(row, d)
  BY <1>4, RowAssumption DEF Answers
<1> QED
  BY <1>2, <1>4, <1>5, <1>6, OpenOpens

LEMMA DeleteOpens ==
    ASSUME IInv, NEW c \in Calls, Delete(c)
    PROVE  \E h : OpensWith(c, h)
<1>1. PICK k \in Stored(store) :
        /\ call[c].step = "idle"
        /\ call' = [call EXCEPT ![c].step = "delete", ![c].kind = "delete", ![c].conv = k]
        /\ seen' = [seen EXCEPT ![c] = {d \in Calls : Settled(d)}]
        /\ store' = store
  BY DEF Delete
<1> DEFINE h == [call[c] EXCEPT !.step = "delete", !.kind = "delete", !.conv = k]
<1>2. call[c] \in Handler /\ Consistent(call[c]) /\ k \in Conversations
  BY DEF IInv, TypeOK, Stored
<1>3. /\ h \in Handler /\ h.step = "delete" /\ h.kind = "delete"
      /\ h.history = call[c].history /\ h.unwritten = call[c].unwritten
  BY <1>2 DEF Handler, Kinds
<1>4. call' = [call EXCEPT ![c] = h]
  BY <1>1 DEF IInv, TypeOK
<1> HIDE DEF h
<1>5. Consistent(h)
  BY <1>1, <1>2, <1>3 DEF Consistent, Writes
<1> QED
  BY <1>1, <1>3, <1>4, <1>5 DEF OpensWith

(* What one more upsert makes of its handler, written or failed. *)
Went(h, k, g) ==
    /\ g \in Handler /\ Consistent(g)
    /\ g.kind = h.kind /\ g.conv = h.conv /\ g.edit = h.edit /\ g.step # "idle"
    /\ Writes(g) => g.history = h.history
    /\ g.step = "save" => h.step = "save" /\ g.unwritten = h.unwritten \ {k}
    /\ g.step = "done" => h.step \in {"persist", "save"} /\ h.unwritten \subseteq {k}
    /\ g.step = "done" /\ g.kind = "chat" => h.step = "save"

LEMMA ResumedGoes ==
    ASSUME NEW h \in Handler, Consistent(h), NEW k \in h.unwritten, NEW g \in Handler,
           g.unwritten = h.unwritten \ {k}, g.history = h.history, g.conv = h.conv,
           g.kind = h.kind, g.edit = h.edit, g.step \in {h.step, "failed"}
    PROVE  Went(h, k, Resumed(g))
<1>1. h.step \in {"persist", "save", "failed"} /\ h.kind # "delete"
  BY DEF Consistent, Writes, Handler
<1>2. g.unwritten \subseteq Stored(g.history) /\ WholeTable(g.history)
      /\ (g.step \in {"persist", "save"} => g.history[g.conv] # NoRow)
      /\ (g.step = "save" => g.kind = "chat")
  BY <1>1 DEF Consistent
<1>3. CASE g.unwritten # {}
  <2>1. Resumed(g) = g
    BY <1>3 DEF Resumed
  <2>2. Consistent(g)
    BY <1>1, <1>2 DEF Consistent, Writes
  <2> QED
    BY <1>1, <2>1, <2>2 DEF Went
<1>4. CASE g.unwritten = {} /\ g.step = "persist" /\ g.kind = "chat"
  <2> DEFINE r == [g EXCEPT !.step = "run"]
  <2>1. Resumed(g) = r
    BY <1>4 DEF Resumed
  <2>2. /\ r \in Handler /\ r.step = "run" /\ r.kind = g.kind /\ r.conv = g.conv
        /\ r.edit = g.edit /\ r.history = g.history /\ r.unwritten = {}
    BY <1>4 DEF Handler
  <2> HIDE DEF r
  <2>3. Consistent(r)
    BY <1>2, <1>4, <2>2 DEF Consistent, Writes
  <2> QED
    BY <2>1, <2>2, <2>3 DEF Went
<1>5. CASE g.unwritten = {} /\ ~(g.step = "persist" /\ g.kind = "chat")
  <2> DEFINE outcome == IF g.step = "failed" THEN "failed" ELSE "done"
             r == Returned(g, outcome)
  <2>1. Resumed(g) = r
    BY <1>5 DEF Resumed
  <2>2. NoHistory \in Table /\ WholeTable(NoHistory)
    BY DEF NoHistory, Table, WholeTable
  <2>3. /\ r \in Handler /\ r.step = outcome /\ r.kind = g.kind /\ r.conv = g.conv
        /\ r.edit = g.edit /\ r.history = NoHistory /\ r.unwritten = {}
    BY <1>5, <2>2 DEF Handler, Returned
  <2> HIDE DEF r
  <2>4. Consistent(r)
    BY <2>2, <2>3 DEF Consistent, Writes
  <2>5. h.unwritten \subseteq {k}
    BY <1>5
  <2>6. g.step = "failed" \/ (g.step = h.step /\ (g.kind = "chat" => g.step = "save"))
    BY <1>1, <1>5
  <2> QED
    BY <1>1, <2>1, <2>3, <2>4, <2>5, <2>6 DEF Went, Writes
<1> QED
  BY <1>3, <1>4, <1>5

LEMMA UpsertGoes ==
    ASSUME IInv, NEW c \in Calls, NEW k \in Conversations, Upsert(c, k)
    PROVE  \E g : /\ k \in call[c].unwritten /\ Went(call[c], k, g)
                  /\ call' = [call EXCEPT ![c] = g]
                  /\ store' = [store EXCEPT ![k] = call[c].history[k]] /\ seen' = seen
<1> DEFINE u == [call[c] EXCEPT !.unwritten = @ \ {k}]
<1>1. call[c] \in Handler /\ Consistent(call[c]) /\ k \in call[c].unwritten
  BY DEF IInv, TypeOK, Upsert
<1>2. /\ u \in Handler /\ u.unwritten = call[c].unwritten \ {k}
      /\ u.history = call[c].history /\ u.conv = call[c].conv /\ u.kind = call[c].kind
      /\ u.edit = call[c].edit /\ u.step = call[c].step
  BY <1>1 DEF Handler
<1>3. call' = [call EXCEPT ![c] = Resumed(u)]
      /\ store' = [store EXCEPT ![k] = call[c].history[k]] /\ seen' = seen
  BY DEF Upsert
<1> HIDE DEF u
<1>4. Went(call[c], k, Resumed(u))
  BY <1>1, <1>2, ResumedGoes
<1> QED
  BY <1>1, <1>3, <1>4

(* A handler that ends, or has ended, before it wrote its history. *)
Ended(h, g) ==
    /\ g.kind = h.kind /\ g.conv = h.conv /\ g.edit = h.edit
    /\ \/ g.step = "failed" /\ h.step # "idle"
       \/ g.step = h.step /\ h.step \in {"idle", "done", "failed"}
    /\ Writes(g) => Writes(h) /\ g.history = h.history

WindsDown ==
    /\ store' = store /\ seen' = seen
    /\ \A x \in Calls : call'[x] = call[x] \/ Ended(call[x], call'[x])

LEMMA UpsertFailsEnds ==
    ASSUME IInv, NEW c \in Calls, NEW k \in Conversations, UpsertFails(c, k)
    PROVE  IInv' /\ WindsDown
<1> DEFINE u == [call[c] EXCEPT !.unwritten = @ \ {k}, !.step = "failed"]
           g == Resumed(u)
<1>1. call[c] \in Handler /\ Consistent(call[c]) /\ k \in call[c].unwritten
  BY DEF IInv, TypeOK, UpsertFails
<1>2. /\ u \in Handler /\ u.unwritten = call[c].unwritten \ {k}
      /\ u.history = call[c].history /\ u.conv = call[c].conv /\ u.kind = call[c].kind
      /\ u.edit = call[c].edit /\ u.step = "failed"
  BY <1>1 DEF Handler
<1>3. call' = [call EXCEPT ![c] = g] /\ store' = store /\ seen' = seen
  BY DEF UpsertFails
<1> HIDE DEF u
<1>4. Went(call[c], k, g)
  BY <1>1, <1>2, ResumedGoes
<1>5. g.step = "failed"
  BY <1>2 DEF Resumed, Returned, Handler
<1> HIDE DEF g
<1>6. Writes(call[c]) /\ ~Settled(c) /\ call[c].step # "idle"
  BY <1>1 DEF Writes, Settled, Consistent
<1>7. IInv'
  BY <1>3, <1>4, <1>6, OneHandlerKeeps DEF Went, IInv, TypeOK, WholeTable
<1>8. Ended(call[c], g)
  BY <1>4, <1>5, <1>6 DEF Ended, Went
<1>9. call'[c] = g /\ \A d \in Calls \ {c} : call'[d] = call[d]
  BY <1>3 DEF IInv, TypeOK
<1> QED
  BY <1>3, <1>7, <1>8, <1>9 DEF WindsDown

(* Returned handlers hold nothing. *)
LEMMA ReturnedEnds ==
    ASSUME NEW h \in Handler, Consistent(h), NEW outcome \in {"idle", "done", "failed"},
           \/ outcome = "failed" /\ h.step # "idle"
           \/ outcome = h.step
    PROVE  LET g == Returned([h EXCEPT !.unwritten = {}], outcome) IN
           g \in Handler /\ Consistent(g) /\ Ended(h, g)
<1> DEFINE g == Returned([h EXCEPT !.unwritten = {}], outcome)
<1>1. NoHistory \in Table /\ WholeTable(NoHistory)
  BY DEF NoHistory, Table, WholeTable
<1>2. /\ g \in Handler /\ g.step = outcome /\ g.kind = h.kind /\ g.conv = h.conv
      /\ g.edit = h.edit /\ g.history = NoHistory /\ g.unwritten = {}
  BY <1>1 DEF Returned, Handler
<1> HIDE DEF g
<1>3. Consistent(g) /\ ~Writes(g)
  BY <1>1, <1>2 DEF Consistent, Writes
<1>4. Ended(h, g)
  BY <1>2, <1>3 DEF Ended
<1> QED
  BY <1>2, <1>3, <1>4 DEF g

LEMMA AgentFailsEnds ==
    ASSUME IInv, NEW c \in Calls, AgentFails(c)
    PROVE  IInv' /\ WindsDown
<1> DEFINE g == Returned(call[c], "failed")
<1>1. call[c] \in Handler /\ Consistent(call[c]) /\ call[c].step = "run"
  BY DEF IInv, TypeOK, AgentFails
<1>2. call[c].unwritten = {}
  BY <1>1 DEF Consistent
<1>3. call[c] = [call[c] EXCEPT !.unwritten = {}]
  BY <1>1, <1>2 DEF Handler
<1>4. g \in Handler /\ Consistent(g) /\ Ended(call[c], g)
  BY <1>1, <1>3, ReturnedEnds
<1>5. call' = [call EXCEPT ![c] = g] /\ store' = store /\ seen' = seen
  BY DEF AgentFails
<1> HIDE DEF g
<1>6. ~Settled(c)
  BY <1>1 DEF Settled
<1>7. IInv'
  BY <1>4, <1>5, <1>6, OneHandlerKeeps DEF IInv, TypeOK, WholeTable
<1>8. call'[c] = g /\ \A d \in Calls \ {c} : call'[d] = call[d]
  BY <1>5 DEF IInv, TypeOK
<1> QED
  BY <1>4, <1>5, <1>7, <1>8 DEF WindsDown

LEMMA RestartEnds ==
    ASSUME IInv, Restart
    PROVE  IInv' /\ WindsDown
<1>1. store' = store /\ seen' = seen
  BY DEF Restart
<1>2. ASSUME NEW c \in Calls
      PROVE  /\ call'[c] \in Handler /\ Consistent(call'[c]) /\ Ended(call[c], call'[c])
             /\ Settled(c) => Settled(c)'
  <2> DEFINE outcome == IF Active(c) THEN "failed" ELSE call[c].step
  <2>1. call'[c] = Returned([call[c] EXCEPT !.unwritten = {}], outcome)
    BY DEF Restart
  <2>2. call[c] \in Handler /\ Consistent(call[c])
    BY DEF IInv, TypeOK
  <2>3. /\ outcome \in {"idle", "done", "failed"}
        /\ \/ outcome = "failed" /\ call[c].step # "idle"
           \/ outcome = call[c].step
    BY <2>2 DEF Active, Handler
  <2>4. call'[c] \in Handler /\ Consistent(call'[c]) /\ Ended(call[c], call'[c])
    BY <2>1, <2>2, <2>3, ReturnedEnds
  <2>5. call'[c].step = outcome /\ call'[c].unwritten = {}
    BY <2>1, <2>2 DEF Returned, Handler
  <2> QED
    BY <2>4, <2>5 DEF Settled, Active
<1>3. call' \in [Calls -> Handler]
  BY <1>2 DEF Restart
<1>4. \A c \in Calls : Consistent(call[c])'
  BY <1>2 DEF Consistent, Stored, Writes, WholeTable
<1>5. SeenSettled'
  BY <1>1, <1>2 DEF IInv, TypeOK, SeenSettled
<1> QED
  BY <1>1, <1>2, <1>3, <1>4, <1>5 DEF IInv, TypeOK, WholeTable, WindsDown


(* The agent's answer, in the history and not yet in the table. *)
Saved(c, h) ==
    /\ call[c].step = "run" /\ h \in Handler /\ Consistent(h) /\ h.step = "save"
    /\ h.kind = call[c].kind /\ h.conv = call[c].conv /\ h.edit = call[c].edit
    /\ call' = [call EXCEPT ![c] = h] /\ store' = store /\ seen' = seen
    /\ h.conv \in h.unwritten /\ Answers(h.history[h.conv], c)
    /\ \A q \in Conversations \ {h.conv} : h.history[q] = call[c].history[q]
    /\ \A d \in Calls : Answers(call[c].history[h.conv], d) => Answers(h.history[h.conv], d)

LEMMA Appended ==
    ASSUME NEW m \in Seq(Message), NEW t \in Seq(Message)
    PROVE  /\ m \o t \in Seq(Message)
           /\ \A i \in DOMAIN m : i \in DOMAIN (m \o t) /\ (m \o t)[i] = m[i]
           /\ \A i \in 1..Len(t) : Len(m) + i \in DOMAIN (m \o t) /\ (m \o t)[Len(m) + i] = t[i]
OBVIOUS

(* The row after the agent's answer. *)
Extended(old, row, c) ==
    /\ row \in Row /\ WholeTurns(row.messages)
    /\ Answers(row, c)
    /\ \A d \in Calls : Answers(old, d) => Answers(row, d)

LEMMA AnsweredRow ==
    ASSUME NEW old \in Row, WholeTurns(old.messages), NEW c \in Calls, NEW tools \in Nat
    PROVE  Extended(old, [old EXCEPT !.messages = old.messages \o Turn(c, tools)], c)
<1> DEFINE m == old.messages
           t == Turn(c, tools)
           messages == m \o t
<1>1. m \in Seq(Message)
  BY DEF Row
<1>2. /\ t \in Seq(Message) /\ Len(t) = tools + 2
      /\ t[tools + 2] = [role |-> "assistant", call |-> c]
  BY TurnShape
<1>3. WholeTurns(messages)
  BY <1>1, TurnIsWhole
<1> DEFINE row == [old EXCEPT !.messages = messages]
<1> SUFFICES Extended(old, row, c)
  OBVIOUS
<1> HIDE DEF t
<1>4. /\ messages \in Seq(Message)
      /\ \A i \in DOMAIN m : i \in DOMAIN messages /\ messages[i] = m[i]
      /\ \A i \in 1..Len(t) : Len(m) + i \in DOMAIN messages /\ messages[Len(m) + i] = t[i]
  BY <1>1, <1>2, Appended
<1> HIDE DEF messages
<1>5. row \in Row /\ row.messages = messages
  BY <1>4 DEF Row
<1> HIDE DEF row
<1>6. row # NoRow
  BY <1>5, RowAssumption
<1>7. Answers(row, c)
  <2>1. tools + 2 \in 1..Len(t)
    BY <1>2
  <2>2. \E i \in DOMAIN messages : messages[i] = [role |-> "assistant", call |-> c]
    BY <1>2, <1>4, <2>1
  <2> QED
    BY <1>5, <1>6, <2>2 DEF Answers
<1>8. \A d \in Calls : Answers(old, d) => Answers(row, d)
  BY <1>4, <1>5, <1>6 DEF Answers
<1> QED
  BY <1>3, <1>5, <1>7, <1>8 DEF Extended

LEMMA AnswerSaves ==
    ASSUME IInv, NEW c \in Calls, NEW tools \in 0..MaxTools, Answer(c, tools)
    PROVE  \E h : Saved(c, h)
<1> DEFINE k == call[c].conv
           old == call[c].history[k]
           row == [old EXCEPT !.messages = @ \o Turn(c, tools)]
           history == [call[c].history EXCEPT ![k] = row]
           h == [call[c] EXCEPT !.step = "save", !.history = history,
                                !.unwritten = Stored(history)]
<1>1. /\ call[c] \in Handler /\ Consistent(call[c]) /\ call[c].step = "run"
      /\ k \in Conversations /\ call[c].history \in Table /\ tools \in Nat
  BY DEF IInv, TypeOK, Answer, Handler, MaxTools
<1>2. old # NoRow /\ old \in Row /\ old.messages \in Seq(Message) /\ WholeTurns(old.messages)
  BY <1>1 DEF Consistent, Table, Row, WholeTable
<1>3. /\ history = [call[c].history EXCEPT ![k].messages = @ \o Turn(c, tools)]
      /\ call' = [call EXCEPT ![c] = h] /\ store' = store /\ seen' = seen
  BY <1>1 DEF Answer, IInv, TypeOK
<1>4. Extended(old, row, c)
  BY <1>1, <1>2, AnsweredRow
<1> HIDE DEF row
<1>5. row \in Row /\ WholeTurns(row.messages) /\ Answers(row, c)
  BY <1>4 DEF Extended
<1>6. \A d \in Calls : Answers(old, d) => Answers(row, d)
  BY <1>4 DEF Extended
<1>7. /\ history \in Table /\ history[k] = row /\ row # NoRow
      /\ \A q \in Conversations \ {k} : history[q] = call[c].history[q]
  BY <1>1, <1>5, RowAssumption DEF Table
<1> HIDE DEF history
<1>8. /\ h \in Handler /\ h.step = "save" /\ h.kind = call[c].kind /\ h.conv = k
      /\ h.edit = call[c].edit /\ h.history = history /\ h.unwritten = Stored(history)
  <2>1. Stored(history) \subseteq Conversations
    BY DEF Stored
  <2> QED
    BY <1>1, <1>7, <2>1 DEF Handler
<1> HIDE DEF h
<1>9. Consistent(h)
  <2>1. WholeTable(history)
    BY <1>1, <1>5, <1>7 DEF Consistent, WholeTable
  <2> QED
    BY <1>1, <1>7, <1>8, <2>1 DEF Consistent
<1>10. k \in h.unwritten
  BY <1>1, <1>7, <1>8 DEF Stored
<1>11. h.history[h.conv] = row /\ h.conv = k
  BY <1>7, <1>8
<1>12. Saved(c, h)
  BY <1>1, <1>3, <1>5, <1>6, <1>7, <1>8, <1>9, <1>10, <1>11 DEF Saved
<1> QED
  BY <1>12 DEF h

(* The row is gone. *)
Removed(c, h) ==
    /\ call[c].step = "delete" /\ call[c].kind = "delete" /\ call[c].conv \in Conversations
    /\ h \in Handler /\ Consistent(h) /\ h.step = "done" /\ h.kind = "delete"
    /\ h.conv = call[c].conv /\ h.edit = call[c].edit /\ h.unwritten = {}
    /\ call' = [call EXCEPT ![c] = h] /\ seen' = seen
    /\ store' = [store EXCEPT ![call[c].conv] = NoRow]

LEMMA DeleteRowRemoves ==
    ASSUME IInv, NEW c \in Calls, DeleteRow(c)
    PROVE  \E h : Removed(c, h)
<1> DEFINE h == [call[c] EXCEPT !.step = "done"]
<1>1. call[c] \in Handler /\ Consistent(call[c]) /\ call[c].step = "delete"
  BY DEF IInv, TypeOK, DeleteRow
<1>2. call' = [call EXCEPT ![c] = h] /\ seen' = seen
      /\ store' = [store EXCEPT ![call[c].conv] = NoRow]
  BY DEF DeleteRow, IInv, TypeOK
<1>3. call[c].kind = "delete" /\ call[c].unwritten = {} /\ call[c].conv \in Conversations
  BY <1>1 DEF Consistent, Handler
<1>4. /\ h \in Handler /\ h.step = "done" /\ h.kind = "delete" /\ h.conv = call[c].conv
      /\ h.edit = call[c].edit /\ h.history = call[c].history /\ h.unwritten = {}
  BY <1>1, <1>3 DEF Handler
<1> HIDE DEF h
<1>5. Consistent(h)
  BY <1>1, <1>4 DEF Consistent, Writes
<1> QED
  BY <1>1, <1>2, <1>3, <1>4, <1>5 DEF Removed

LEMMA OpensIInv ==
    ASSUME IInv, NEW c \in Calls, NEW h, OpensWith(c, h)
    PROVE  IInv'
<1>1. ~Settled(c)
  BY DEF OpensWith, Settled
<1> QED
  BY <1>1, OneHandlerKeeps DEF OpensWith, IInv, TypeOK, WholeTable

LEMMA SavedIInv ==
    ASSUME IInv, NEW c \in Calls, NEW h, Saved(c, h)
    PROVE  IInv'
<1>1. ~Settled(c)
  BY DEF Saved, Settled
<1> QED
  BY <1>1, OneHandlerKeeps DEF Saved, IInv, TypeOK, WholeTable

LEMMA RemovedIInv ==
    ASSUME IInv, NEW c \in Calls, NEW h, Removed(c, h)
    PROVE  IInv'
<1>1. ~Settled(c)
  BY DEF Removed, Settled
<1>2. store' \in Table /\ WholeTable(store)'
  BY DEF Removed, IInv, TypeOK, Table, WholeTable
<1> QED
  BY <1>1, <1>2, OneHandlerKeeps DEF Removed

(* An upsert, as UpsertGoes describes it. *)
Written(c, k, g) ==
    /\ k \in call[c].unwritten /\ Went(call[c], k, g)
    /\ call' = [call EXCEPT ![c] = g]
    /\ store' = [store EXCEPT ![k] = call[c].history[k]] /\ seen' = seen

LEMMA WrittenIInv ==
    ASSUME IInv, NEW c \in Calls, NEW k \in Conversations, NEW g, Written(c, k, g)
    PROVE  IInv'
<1>1. call[c] \in Handler /\ Consistent(call[c]) /\ ~Settled(c)
  BY DEF Written, IInv, TypeOK, Settled
<1>2. call[c].history \in Table /\ call[c].history[k] \in Row \cup {NoRow}
      /\ (call[c].history[k] # NoRow => WholeTurns(call[c].history[k].messages))
  BY <1>1 DEF Handler, Table, Consistent, WholeTable
<1>3. store' \in Table /\ WholeTable(store)'
  BY <1>2 DEF Written, IInv, TypeOK, Table, WholeTable
<1>4. g \in Handler /\ Consistent(g)
  BY DEF Written, Went
<1> QED
  BY <1>1, <1>3, <1>4, OneHandlerKeeps DEF Written

(* Every step of the backend is one of these. *)
LEMMA NextIsOneOf ==
    ASSUME IInv, [Next]_vars
    PROVE  \/ IInv' /\ WindsDown
           \/ \E c \in Calls : \E h : OpensWith(c, h)
           \/ \E c \in Calls : \E h : Saved(c, h)
           \/ \E c \in Calls : \E h : Removed(c, h)
           \/ \E c \in Calls, k \in Conversations : \E g : Written(c, k, g)
<1>1. ASSUME NEW c \in Calls, Chat(c) PROVE \E h : OpensWith(c, h)
  BY <1>1, ChatOpens
<1>2. ASSUME NEW c \in Calls, Create(c) PROVE \E h : OpensWith(c, h)
  BY <1>2, CreateOpens
<1>3. ASSUME NEW c \in Calls, Patch(c) PROVE \E h : OpensWith(c, h)
  BY <1>3, PatchOpens
<1>4. ASSUME NEW c \in Calls, Delete(c) PROVE \E h : OpensWith(c, h)
  BY <1>4, DeleteOpens
<1>5. ASSUME NEW c \in Calls, DeleteRow(c) PROVE \E h : Removed(c, h)
  BY <1>5, DeleteRowRemoves
<1>6. ASSUME NEW c \in Calls, NEW k \in Conversations, Upsert(c, k)
      PROVE  \E g : Written(c, k, g)
  BY <1>6, UpsertGoes DEF Written
<1>7. ASSUME NEW c \in Calls, NEW k \in Conversations, UpsertFails(c, k)
      PROVE  IInv' /\ WindsDown
  BY <1>7, UpsertFailsEnds
<1>8. ASSUME NEW c \in Calls, NEW tools \in 0..MaxTools, Answer(c, tools)
      PROVE  \E h : Saved(c, h)
  BY <1>8, AnswerSaves
<1>9. ASSUME NEW c \in Calls, AgentFails(c) PROVE IInv' /\ WindsDown
  BY <1>9, AgentFailsEnds
<1>10. ASSUME Restart PROVE IInv' /\ WindsDown
  BY <1>10, RestartEnds
<1>11. ASSUME UNCHANGED vars PROVE IInv' /\ WindsDown
  <2>1. WindsDown
    BY <1>11 DEF vars, WindsDown
  <2>2. IInv'
    BY <1>11 DEF vars, IInv, TypeOK, WholeTable, Consistent, Writes, Stored, SeenSettled, Settled
  <2> QED
    BY <2>1, <2>2
<1> QED
  BY <1>1, <1>2, <1>3, <1>4, <1>5, <1>6, <1>7, <1>8, <1>9, <1>10, <1>11 DEF Next

LEMMA NextIInv ==
    ASSUME IInv, [Next]_vars
    PROVE  IInv'
BY NextIsOneOf, OpensIInv, SavedIInv, RemovedIInv, WrittenIInv

-----------------------------------------------------------------------------
(* The second layer.  Two calls under way at the same time overlap: neither *)
(* can have been seen settled by the other.                                 *)

LEMMA WritersAreUnderWay ==
    ASSUME IInv, NEW c \in Calls, Writes(call[c])
    PROVE  call[c].step # "idle" /\ ~Settled(c) /\ call[c].kind # "delete"
           /\ call[c].step # "done"
<1>1. call[c] \in Handler /\ Consistent(call[c])
  BY DEF IInv, TypeOK
<1> QED
  BY <1>1 DEF Writes, Consistent, Settled

LEMMA Together ==
    ASSUME IInv, NEW c \in Calls, NEW d \in Calls, c # d,
           call[c].step # "idle", call[d].step # "idle", ~Settled(c), ~Settled(d)
    PROVE  Overlap(c, d) /\ Overlap(d, c)
BY DEF IInv, SeenSettled, Overlap

(* A call that has opened keeps what it is about and what it has seen. *)
Forward ==
    \A x \in Calls : call[x].step # "idle" =>
        /\ call'[x].step # "idle" /\ call'[x].kind = call[x].kind
        /\ call'[x].conv = call[x].conv /\ call'[x].edit = call[x].edit
        /\ seen'[x] = seen[x]

LEMMA OverlapLasts ==
    ASSUME Forward, NEW c \in Calls, NEW d \in Calls, Overlap(c, d)
    PROVE  Overlap(c, d)'
BY DEF Forward, Overlap

LEMMA LostLasts ==
    ASSUME Forward, NEW c \in Calls, call[c].step # "idle", Lost(c)
    PROVE  Lost(c)'
<1>1. PICK d \in Calls : Overlap(c, d) \/ Discards(d, call[c].conv)
  BY DEF Lost
<1>2. CASE Overlap(c, d)
  BY <1>2, OverlapLasts DEF Lost
<1>3. CASE Discards(d, call[c].conv)
  <2>1. Discards(d, call[c].conv)'
    BY <1>3 DEF Discards, Forward
  <2> QED
    BY <2>1 DEF Lost
<1> QED
  BY <1>1, <1>2, <1>3

LEMMA RenewedLasts ==
    ASSUME Forward, NEW d \in Calls, call[d].step # "idle", Renewed(d)
    PROVE  Renewed(d)'
<1>1. PICK c \in Calls :
        \/ Overlap(c, d)
        \/ call[c].step # "idle" /\ call[c].kind = "chat" /\ call[c].conv = call[d].conv
  BY DEF Renewed
<1>2. CASE Overlap(c, d)
  BY <1>2, OverlapLasts DEF Renewed
<1>3. CASE call[c].step # "idle" /\ call[c].kind = "chat" /\ call[c].conv = call[d].conv
  BY <1>3 DEF Renewed, Forward
<1> QED
  BY <1>1, <1>2, <1>3

(* A handler ends, or nothing happens at all. *)
LEMMA WindingDownKeeps ==
    ASSUME CInv, WindsDown, NEW x \in Calls
    PROVE  Delivered(x)' /\ Gone(x)' /\ Unshared(x)'
<1>1. store' = store /\ seen' = seen
      /\ \A d \in Calls : call'[d] = call[d] \/ Ended(call[d], call'[d])
  BY DEF WindsDown
<1>2. Forward
  BY <1>1 DEF Forward, Ended
<1>3. \A d \in Calls : Writes(call'[d]) => Writes(call[d]) /\ call'[d].history = call[d].history
  BY <1>1 DEF Ended
<1>4. /\ call'[x].kind = call[x].kind /\ call'[x].conv = call[x].conv
      /\ call'[x].step = "done" => call[x].step = "done"
      /\ call'[x].step = "save" => call'[x] = call[x]
  BY <1>1 DEF Ended
<1>5. Delivered(x) /\ Gone(x) /\ Unshared(x)
  BY DEF CInv
<1>6. Delivered(x)'
  <2> SUFFICES ASSUME call'[x].kind = "chat", ~Lost(x)', call'[x].step \in {"save", "done"}
               PROVE  Delivered(x)'
    BY DEF Delivered
  <2>1. call[x].step # "idle" /\ ~Lost(x)
    BY <1>2, <1>4, LostLasts
  <2> QED
    BY <1>1, <1>3, <1>4, <1>5, <2>1 DEF Delivered, Answers, Writes
<1>7. Gone(x)'
  <2> SUFFICES ASSUME call'[x].kind = "delete", ~Renewed(x)', call'[x].step = "done"
               PROVE  Gone(x)'
    BY DEF Gone
  <2>1. call[x].step = "done" /\ ~Renewed(x)
    BY <1>2, <1>4, RenewedLasts
  <2> QED
    BY <1>1, <1>3, <1>4, <1>5, <2>1 DEF Gone, Writes
<1>8. Unshared(x)'
  <2> SUFFICES ASSUME Writes(call'[x]), \A d \in Calls : ~Overlap(x, d)'
               PROVE  Unshared(x)'
    BY DEF Unshared, Writes
  <2>1. \A d \in Calls : ~Overlap(x, d)
    BY <1>2, OverlapLasts
  <2> QED
    BY <1>1, <1>3, <1>4, <1>5, <2>1 DEF Unshared, Writes
<1> QED
  BY <1>6, <1>7, <1>8

(* A call opens: what is under way overlaps it, and it has seen the rest. *)
LEMMA OpeningKeeps ==
    ASSUME CInv, NEW c \in Calls, NEW h, OpensWith(c, h), NEW x \in Calls
    PROVE  Delivered(x)' /\ Gone(x)' /\ Unshared(x)'
<1>1. /\ IInv /\ IInv' /\ store' = store /\ call[c].step = "idle"
      /\ h \in Handler /\ Consistent(h)
      /\ h.step \in {"persist", "delete"} /\ (h.step = "delete" => h.kind = "delete")
      /\ h.step = "persist" => TakenOver(h)
  BY OpensIInv DEF CInv, OpensWith
<1>2. call'[c] = h /\ seen'[c] = {d \in Calls : Settled(d)}
      /\ \A d \in Calls \ {c} : call'[d] = call[d] /\ seen'[d] = seen[d]
  BY DEF OpensWith, CInv, IInv, TypeOK
<1>3. Forward
  BY <1>1, <1>2 DEF Forward
<1>4. ASSUME x # c, call[x].step # "idle", ~Settled(x)
      PROVE  Overlap(x, c)'
  <2>1. ~Settled(x)' /\ ~Settled(c)' /\ (call[x].step # "idle")' /\ (call[c].step # "idle")'
    BY <1>1, <1>2, <1>4 DEF Settled
  <2>2. x \notin seen'[c] /\ c \notin seen'[x]
    BY <1>1, <2>1 DEF IInv, SeenSettled
  <2> QED
    BY <1>4, <2>1, <2>2 DEF Overlap
<1>5. Delivered(x) /\ Gone(x)
  BY DEF CInv
<1>6. Writes(h) => h.step = "persist" /\ h.kind # "delete" /\ TakenOver(h)
  BY <1>1 DEF Consistent, Writes
<1>7. Delivered(x)'
  <2> SUFFICES ASSUME call'[x].kind = "chat", ~Lost(x)', call'[x].step \in {"save", "done"}
               PROVE  Delivered(x)'
    BY DEF Delivered
  <2>1. x # c /\ call'[x] = call[x]
    BY <1>1, <1>2
  <2>2. ~Lost(x)
    BY <1>3, <2>1, LostLasts
  <2>3. call[x].step = "done"
    <3>1. CASE call[x].step = "save"
      <4>1. ~Settled(x)
        BY <3>1 DEF Settled
      <4> QED
        BY <1>4, <2>1, <3>1, <4>1 DEF Lost
    <3> QED
      BY <2>1, <3>1
  <2> DEFINE k == call[x].conv
  <2>4. /\ Answers(store[k], x)
        /\ \A d \in Calls : Writes(call[d]) => Answers(call[d].history[k], x)
    BY <1>5, <2>1, <2>2, <2>3 DEF Delivered
  <2>5. ASSUME Writes(h) PROVE Answers(h.history[k], x)
    <3>1. CASE k # h.conv
      <4>1. k \in Conversations
        BY <1>1 DEF IInv, TypeOK, Handler
      <4> QED
        BY <1>6, <2>4, <2>5, <3>1, <4>1 DEF TakenOver
    <3>2. CASE k = h.conv
      <4>1. h.edit = NoEdit
        <5>1. ~Discards(c, call[x].conv)'
          BY DEF Lost
        <5> QED
          BY <1>1, <1>2, <2>1, <3>2, <5>1 DEF Discards
      <4> QED
        BY <1>6, <2>4, <2>5, <3>2, <4>1 DEF TakenOver
    <3> QED
      BY <3>1, <3>2
  <2>6. ASSUME NEW d \in Calls, Writes(call'[d]) PROVE Answers(call'[d].history[k], x)
    BY <1>2, <2>4, <2>5, <2>6
  <2> QED
    BY <1>1, <2>1, <2>3, <2>4, <2>6 DEF Delivered, Answers, Writes
<1>8. Gone(x)'
  <2> SUFFICES ASSUME call'[x].kind = "delete", ~Renewed(x)', call'[x].step = "done"
               PROVE  Gone(x)'
    BY DEF Gone
  <2>1. x # c /\ call'[x] = call[x]
    BY <1>1, <1>2
  <2>2. ~Renewed(x)
    BY <1>3, <2>1, RenewedLasts
  <2> DEFINE k == call[x].conv
  <2>3. /\ store[k] = NoRow
        /\ \A d \in Calls : Writes(call[d]) => call[d].history[k] = NoRow
    BY <1>5, <2>1, <2>2 DEF Gone
  <2>4. ASSUME Writes(h) PROVE h.history[k] = NoRow
    <3>1. k # h.conv
      <4>1. h.kind # "chat" \/ h.conv # k
        <5>1. ~(call[c].step # "idle" /\ call[c].kind = "chat" /\ call[c].conv = call[x].conv)'
          BY DEF Renewed
        <5> QED
          BY <1>1, <1>2, <2>1, <5>1
      <4> QED
        BY <1>6, <2>1, <2>3, <2>4, <4>1 DEF TakenOver
    <3>2. k \in Conversations
      BY <1>1 DEF IInv, TypeOK, Handler
    <3> QED
      BY <1>6, <2>3, <2>4, <3>1, <3>2 DEF TakenOver
  <2>5. ASSUME NEW d \in Calls, Writes(call'[d]) PROVE call'[d].history[k] = NoRow
    BY <1>2, <2>3, <2>4, <2>5
  <2> QED
    BY <1>1, <2>1, <2>3, <2>5 DEF Gone, Writes
<1>9. Unshared(x)'
  <2> SUFFICES ASSUME Writes(call'[x]), \A d \in Calls : ~Overlap(x, d)'
               PROVE  Unshared(x)'
    BY DEF Unshared, Writes
  <2>1. x = c
    <3> SUFFICES ASSUME x # c PROVE FALSE
      OBVIOUS
    <3>1. call[x].step # "idle" /\ ~Settled(x)
      BY <1>1, <1>2, WritersAreUnderWay
    <3> QED
      BY <1>4, <3>1
  <2> QED
    BY <1>1, <1>2, <1>6, <2>1 DEF Unshared, TakenOver
<1> QED
  BY <1>7, <1>8, <1>9

(* The agent has answered. *)
LEMMA SavingKeeps ==
    ASSUME CInv, NEW c \in Calls, NEW h, Saved(c, h), NEW x \in Calls
    PROVE  Delivered(x)' /\ Gone(x)' /\ Unshared(x)'
<1>1. /\ IInv /\ store' = store /\ seen' = seen /\ call[c].step = "run"
      /\ h.step = "save" /\ h.kind = call[c].kind /\ h.conv = call[c].conv
      /\ h.edit = call[c].edit /\ h.conv \in h.unwritten
      /\ Answers(h.history[h.conv], c)
      /\ \A q \in Conversations \ {h.conv} : h.history[q] = call[c].history[q]
      /\ \A d \in Calls : Answers(call[c].history[h.conv], d) => Answers(h.history[h.conv], d)
  BY DEF CInv, Saved
<1>2. call'[c] = h /\ \A d \in Calls \ {c} : call'[d] = call[d]
  BY DEF Saved, CInv, IInv, TypeOK
<1>3. Forward
  BY <1>1, <1>2 DEF Forward
<1>4. /\ Writes(call[c]) /\ ~Settled(c) /\ call[c].kind = "chat"
      /\ call[c].history[call[c].conv] # NoRow
  BY <1>1 DEF IInv, Consistent, Writes, Settled
<1>5. Delivered(x) /\ Gone(x) /\ Unshared(x)
  BY DEF CInv
<1>6. call[x].conv \in Conversations
  BY <1>1 DEF IInv, TypeOK, Handler
<1>7. Delivered(x)'
  <2> SUFFICES ASSUME call'[x].kind = "chat", ~Lost(x)', call'[x].step \in {"save", "done"}
               PROVE  Delivered(x)'
    BY DEF Delivered
  <2>1. CASE x = c
    BY <1>1, <1>2, <2>1 DEF Delivered, Answers
  <2>2. CASE x # c
    <3>1. call'[x] = call[x] /\ ~Lost(x)
      BY <1>2, <1>3, <2>2, LostLasts
    <3>2. call[x].step = "done"
      <4>1. CASE call[x].step = "save"
        <5>1. ~Settled(x)
          BY <4>1 DEF Settled
        <5> QED
          BY <1>1, <1>4, <2>2, <3>1, <4>1, <5>1, Together DEF Lost
      <4> QED
        BY <3>1, <4>1
    <3>3. /\ Answers(store[call[x].conv], x)
          /\ \A d \in Calls : Writes(call[d]) => Answers(call[d].history[call[x].conv], x)
      BY <1>5, <3>1, <3>2 DEF Delivered
    <3>4. Answers(h.history[call[x].conv], x)
      BY <1>1, <1>4, <1>6, <3>3
    <3>5. ASSUME NEW d \in Calls, Writes(call'[d])
          PROVE  Answers(call'[d].history[call[x].conv], x)
      BY <1>2, <3>3, <3>4, <3>5
    <3>6. store' = store
      BY <1>1
    <3> QED
      BY <3>1, <3>2, <3>3, <3>5, <3>6 DEF Delivered, Answers, Writes
  <2> QED
    BY <2>1, <2>2
<1>8. Gone(x)'
  <2> SUFFICES ASSUME call'[x].kind = "delete", ~Renewed(x)', call'[x].step = "done"
               PROVE  Gone(x)'
    BY DEF Gone
  <2>1. x # c /\ call'[x] = call[x]
    BY <1>1, <1>2
  <2>2. ~Renewed(x)
    BY <1>3, <2>1, RenewedLasts
  <2>3. /\ store[call[x].conv] = NoRow
        /\ \A d \in Calls : Writes(call[d]) => call[d].history[call[x].conv] = NoRow
    BY <1>5, <2>1, <2>2 DEF Gone
  <2>4. h.history[call[x].conv] = NoRow
    BY <1>1, <1>4, <1>6, <2>3
  <2>5. ASSUME NEW d \in Calls, Writes(call'[d]) PROVE call'[d].history[call[x].conv] = NoRow
    BY <1>2, <2>3, <2>4, <2>5
  <2> QED
    BY <1>1, <2>1, <2>3, <2>5 DEF Gone, Writes
<1>9. Unshared(x)'
  <2> SUFFICES ASSUME Writes(call'[x]), \A d \in Calls : ~Overlap(x, d)'
               PROVE  Unshared(x)'
    BY DEF Unshared, Writes
  <2>1. \A d \in Calls : ~Overlap(x, d)
    BY <1>3, OverlapLasts
  <2> QED
    BY <1>1, <1>2, <1>4, <1>5, <2>1 DEF Unshared, Writes
<1> QED
  BY <1>7, <1>8, <1>9

(* One row reaches the table: another answer that is on its way overlaps   *)
(* the writer, and every other one is in its history.                      *)
LEMMA WritingKeeps ==
    ASSUME CInv, NEW c \in Calls, NEW k \in Conversations, NEW g, Written(c, k, g),
           NEW x \in Calls
    PROVE  Delivered(x)' /\ Gone(x)' /\ Unshared(x)'
<1> DEFINE h == call[c]
<1>1. /\ IInv /\ k \in h.unwritten /\ Went(h, k, g) /\ seen' = seen
      /\ store'[k] = h.history[k]
      /\ \A q \in Conversations \ {k} : store'[q] = store[q]
  BY DEF CInv, Written, IInv, TypeOK, Table
<1>2. call'[c] = g /\ \A d \in Calls \ {c} : call'[d] = call[d]
  BY DEF Written, CInv, IInv, TypeOK
<1>3. Writes(h) /\ h.step # "idle" /\ ~Settled(c) /\ h.kind # "delete"
  <2>1. Writes(h)
    BY <1>1 DEF Writes
  <2> QED
    BY <1>1, <2>1, WritersAreUnderWay
<1>4. Forward
  BY <1>1, <1>2, <1>3 DEF Forward, Went
<1>5. \A d \in Calls : Writes(call'[d]) => Writes(call[d]) /\ call'[d].history = call[d].history
  BY <1>1, <1>2, <1>3 DEF Went
<1>6. Delivered(x) /\ Gone(x) /\ Unshared(x)
  BY DEF CInv
<1>7. call[x].conv \in Conversations
  BY <1>1 DEF IInv, TypeOK, Handler
<1>8. /\ call'[x].kind = call[x].kind /\ call'[x].conv = call[x].conv
      /\ call'[x].step # "idle" => call[x].step # "idle"
  BY <1>1, <1>2, <1>3 DEF Went
<1>9. Delivered(x)'
  <2> SUFFICES ASSUME call'[x].kind = "chat", ~Lost(x)', call'[x].step \in {"save", "done"}
               PROVE  Delivered(x)'
    BY DEF Delivered
  <2> DEFINE q == call[x].conv
  <2>0. call[x].step # "idle" /\ ~Lost(x) /\ call[x].kind = "chat"
    BY <1>4, <1>8, LostLasts
  <2>1. CASE x = c
    <3>1. /\ h.step = "save" /\ Answers(h.history[q], c)
          /\ q \in h.unwritten \/ Answers(store[q], c)
      <4>1. h.step = "save"
        BY <1>1, <1>2, <2>0, <2>1 DEF Went
      <4> QED
        BY <1>6, <2>0, <2>1, <4>1 DEF Delivered
    <3>2. CASE g.step = "save"
      <4>1. g.history = h.history /\ g.unwritten = h.unwritten \ {k}
        BY <1>1, <3>2 DEF Went, Writes
      <4>2. q \in g.unwritten \/ Answers(store'[q], c)
        BY <1>1, <1>7, <3>1, <4>1
      <4> QED
        BY <1>2, <1>8, <2>1, <3>1, <3>2, <4>1, <4>2 DEF Delivered, Answers
    <3>3. CASE g.step = "done"
      <4>1. h.unwritten \subseteq {k} /\ ~Writes(g)
        BY <1>1, <3>3 DEF Went, Consistent, Writes
      <4>2. Answers(store'[q], c)
        BY <1>1, <1>7, <3>1, <4>1
      <4>3. ASSUME NEW d \in Calls, Writes(call'[d]) PROVE FALSE
        <5>1. d # c /\ Writes(call[d])
          BY <1>2, <4>1, <4>3
        <5>2. Overlap(c, d)
          BY <1>1, <1>3, <5>1, Together, WritersAreUnderWay
        <5> QED
          BY <2>0, <2>1, <5>2 DEF Lost
      <4> QED
        BY <1>2, <1>8, <2>1, <3>3, <4>2, <4>3 DEF Delivered, Answers, Writes
    <3> QED
      BY <1>2, <2>1, <3>2, <3>3
  <2>2. CASE x # c
    <3>1. call'[x] = call[x]
      BY <1>2, <2>2
    <3>2. call[x].step = "done"
      <4>1. CASE call[x].step = "save"
        <5>1. ~Settled(x)
          BY <4>1 DEF Settled
        <5> QED
          BY <1>1, <1>3, <2>0, <2>2, <5>1, Together DEF Lost
      <4> QED
        BY <3>1, <4>1
    <3>3. /\ Answers(store[q], x)
          /\ \A d \in Calls : Writes(call[d]) => Answers(call[d].history[q], x)
      BY <1>6, <2>0, <3>2 DEF Delivered
    <3>4. Answers(store'[q], x)
      BY <1>1, <1>3, <1>7, <3>3
    <3> QED
      BY <1>5, <3>1, <3>2, <3>3, <3>4 DEF Delivered, Answers, Writes
  <2> QED
    BY <2>1, <2>2
<1>10. Gone(x)'
  <2> SUFFICES ASSUME call'[x].kind = "delete", ~Renewed(x)', call'[x].step = "done"
               PROVE  Gone(x)'
    BY DEF Gone
  <2> DEFINE q == call[x].conv
  <2>1. x # c /\ call'[x] = call[x]
    BY <1>2, <1>3, <1>8
  <2>2. ~Renewed(x)
    BY <1>4, <2>1, RenewedLasts
  <2>3. /\ store[q] = NoRow
        /\ \A d \in Calls : Writes(call[d]) => call[d].history[q] = NoRow
    BY <1>6, <2>1, <2>2 DEF Gone
  <2>4. store'[q] = NoRow
    BY <1>1, <1>3, <1>7, <2>3
  <2> QED
    BY <1>5, <2>1, <2>3, <2>4 DEF Gone, Writes
<1>11. Unshared(x)'
  <2> SUFFICES ASSUME Writes(call'[x]), \A d \in Calls : ~Overlap(x, d)'
               PROVE  Unshared(x)'
    BY DEF Unshared, Writes
  <2>1. \A d \in Calls : ~Overlap(x, d)
    BY <1>4, OverlapLasts
  <2>2. Writes(call[x]) /\ call'[x].history = call[x].history
    BY <1>5
  <2>3. x = c
    BY <1>1, <1>3, <2>1, <2>2, Together, WritersAreUnderWay
  <2>4. \A q \in Conversations \ {h.conv} : h.history[q] = store[q]
    BY <1>6, <2>1, <2>2, <2>3 DEF Unshared
  <2>5. \A q \in Conversations \ {h.conv} : h.history[q] = store'[q]
    BY <1>1, <2>4
  <2> QED
    BY <1>8, <2>2, <2>3, <2>5 DEF Unshared
<1> QED
  BY <1>9, <1>10, <1>11

(* A row is deleted. *)
LEMMA RemovingKeeps ==
    ASSUME CInv, NEW c \in Calls, NEW h, Removed(c, h), NEW x \in Calls
    PROVE  Delivered(x)' /\ Gone(x)' /\ Unshared(x)'
<1> DEFINE k == call[c].conv
<1>1. /\ IInv /\ seen' = seen /\ call[c].step = "delete" /\ call[c].kind = "delete"
      /\ h.step = "done" /\ h.kind = "delete" /\ h.conv = k /\ h.edit = call[c].edit
      /\ h.unwritten = {} /\ k \in Conversations
      /\ store'[k] = NoRow /\ \A q \in Conversations \ {k} : store'[q] = store[q]
  BY DEF CInv, Removed, IInv, TypeOK, Table
<1>2. call'[c] = h /\ \A d \in Calls \ {c} : call'[d] = call[d]
  BY DEF Removed, CInv, IInv, TypeOK
<1>3. ~Settled(c) /\ ~Writes(h)
  BY <1>1 DEF Settled, Writes
<1>4. Forward
  BY <1>1, <1>2 DEF Forward
<1>5. \A d \in Calls : Writes(call'[d]) => d # c /\ Writes(call[d]) /\ call'[d] = call[d]
  BY <1>2, <1>3
<1>6. Delivered(x) /\ Gone(x)
  BY DEF CInv
<1>7. call[x].conv \in Conversations
  BY <1>1 DEF IInv, TypeOK, Handler
<1>8. ASSUME NEW d \in Calls, Writes(call'[d]) PROVE Overlap(d, c)'
  <2>1. d # c /\ Writes(call[d])
    BY <1>5, <1>8
  <2>2. Overlap(d, c)
    BY <1>1, <1>3, <2>1, Together, WritersAreUnderWay
  <2> QED
    BY <1>4, <2>2, OverlapLasts
<1>9. Delivered(x)'
  <2> SUFFICES ASSUME call'[x].kind = "chat", ~Lost(x)', call'[x].step \in {"save", "done"}
               PROVE  Delivered(x)'
    BY DEF Delivered
  <2> DEFINE q == call[x].conv
  <2>1. x # c /\ call'[x] = call[x]
    BY <1>1, <1>2
  <2>2. ~Lost(x)
    BY <1>4, <2>1, LostLasts
  <2>3. call[x].step = "done"
    <3>1. CASE call[x].step = "save"
      <4>1. ~Settled(x)
        BY <3>1 DEF Settled
      <4> QED
        BY <1>1, <1>3, <2>1, <2>2, <3>1, <4>1, Together DEF Lost
    <3> QED
      BY <2>1, <3>1
  <2>4. q # k
    <3>1. ~Discards(c, call[x].conv)'
      BY DEF Lost
    <3> QED
      BY <1>1, <1>2, <2>1, <3>1 DEF Discards
  <2>5. /\ Answers(store[q], x)
        /\ \A d \in Calls : Writes(call[d]) => Answers(call[d].history[q], x)
    BY <1>6, <2>1, <2>2, <2>3 DEF Delivered
  <2>6. Answers(store'[q], x)
    BY <1>1, <1>7, <2>4, <2>5
  <2> QED
    BY <1>5, <2>1, <2>3, <2>5, <2>6 DEF Delivered, Answers, Writes
<1>10. Gone(x)'
  <2> SUFFICES ASSUME call'[x].kind = "delete", ~Renewed(x)', call'[x].step = "done"
               PROVE  Gone(x)'
    BY DEF Gone
  <2>1. CASE x = c
    <3>1. ASSUME NEW d \in Calls, Writes(call'[d]) PROVE FALSE
      BY <1>8, <2>1, <3>1 DEF Renewed
    <3> QED
      BY <1>1, <1>2, <2>1, <3>1 DEF Gone, Writes
  <2>2. CASE x # c
    <3>1. call'[x] = call[x] /\ ~Renewed(x)
      BY <1>2, <1>4, <2>2, RenewedLasts
    <3>2. /\ store[call[x].conv] = NoRow
          /\ \A d \in Calls : Writes(call[d]) => call[d].history[call[x].conv] = NoRow
      BY <1>6, <3>1 DEF Gone
    <3>3. store'[call[x].conv] = NoRow
      BY <1>1, <1>7, <3>2
    <3> QED
      BY <1>5, <3>1, <3>2, <3>3 DEF Gone, Writes
  <2> QED
    BY <2>1, <2>2
<1>11. Unshared(x)'
  BY <1>8 DEF Unshared, Writes
<1> QED
  BY <1>9, <1>10, <1>11

LEMMA NextCInv ==
    ASSUME CInv, [Next]_vars
    PROVE  CInv'
<1>1. IInv /\ IInv'
  BY NextIInv DEF CInv
<1>2. ASSUME NEW x \in Calls PROVE Delivered(x)' /\ Gone(x)' /\ Unshared(x)'
  BY <1>1, NextIsOneOf, WindingDownKeeps, OpeningKeeps, SavingKeeps, WritingKeeps,
     RemovingKeeps
<1> QED
  BY <1>1, <1>2 DEF CInv

LEMMA InitCInv == Init => CInv
<1> SUFFICES ASSUME Init PROVE CInv
  OBVIOUS
<1>1. IInv
  BY InitIInv
<1>2. ASSUME NEW c \in Calls
      PROVE  call[c].step = "idle" /\ call[c].unwritten = {}
  BY DEF Init
<1>3. ASSUME NEW c \in Calls PROVE Delivered(c) /\ Gone(c) /\ Unshared(c)
  BY <1>2 DEF Delivered, Gone, Unshared, Writes
<1> QED
  BY <1>1, <1>3 DEF CInv

LEMMA CInvHolds == Spec => []CInv
<1>1. Init => CInv
  BY InitCInv
<1>2. CInv /\ [Next]_vars => CInv'
  BY NextCInv
<1> QED
  BY <1>1, <1>2, PTL DEF Spec

-----------------------------------------------------------------------------
(* The table, the handlers and their snapshots stay within their types,    *)
(* whatever order the handlers' statements come in (readHistory,           *)
(* writeHistory).                                                          *)
THEOREM ConversationTypeCorrect == Spec => []TypeOK
<1>1. CInv => TypeOK
  BY DEF CInv, IInv
<1> QED
  BY <1>1, CInvHolds, PTL

(* However many calls overlap, fail or are edited, no row of the table     *)
(* holds a question without its answer or an answer without its question:  *)
(* every history a handler can write is made of whole turns.               *)
THEOREM TurnsStayWhole == Spec => []TurnsAreWhole
<1>1. CInv => TurnsAreWhole
  BY DEF CInv, IInv, WholeTable, TurnsAreWhole, Stored
<1> QED
  BY <1>1, CInvHolds, PTL

(* A delivered answer is lost to no call that came before it or after it,  *)
(* only to one that overlaps it, or to the user's own deletion or edit.    *)
THEOREM AnswersStay == Spec => []AnswersSurvive
<1>1. CInv => AnswersSurvive
  <2> SUFFICES ASSUME CInv, NEW c \in Calls, call[c].kind = "chat", call[c].step = "done",
                      ~Lost(c)
               PROVE  /\ call[c].conv \in Stored(store)
                      /\ \E i \in DOMAIN store[call[c].conv].messages :
                             store[call[c].conv].messages[i] = [role |-> "assistant", call |-> c]
    BY DEF AnswersSurvive, Lost
  <2>1. call[c].conv \in Conversations
    BY DEF CInv, IInv, TypeOK, Handler
  <2>2. Answers(store[call[c].conv], c)
    BY DEF CInv, Delivered
  <2> QED
    BY <2>1, <2>2 DEF Answers, Stored
<1> QED
  BY <1>1, CInvHolds, PTL

(* A deleted conversation is brought back by no call that came before or   *)
(* after the deletion, only by one that overlaps it or a chat on its id.   *)
THEOREM DeletionsStay == Spec => []DeletedStaysGone
<1>1. CInv => DeletedStaysGone
  BY DEF CInv, Gone, Renewed, DeletedStaysGone, Stored
<1> QED
  BY <1>1, CInvHolds, PTL

(* A writeHistory changes the row of a conversation its call is not about  *)
(* only when another call overlaps it: alone, it writes what is there.     *)
THEOREM BystandersAreKept == Spec => BystandersKeepTheirRows
<1> DEFINE Kept ==
      \A k \in Conversations :
          store'[k] # store[k] =>
              \E c \in Calls :
                  /\ call[c].step # "idle" /\ ~Settled(c)
                  /\ call[c].conv = k \/ \E d \in Calls : Overlap(c, d)
<1>1. ASSUME CInv, [Next]_vars PROVE [Kept]_vars
  <2> SUFFICES ASSUME NEW k \in Conversations, store'[k] # store[k]
               PROVE  \E c \in Calls :
                          /\ call[c].step # "idle" /\ ~Settled(c)
                          /\ call[c].conv = k \/ \E d \in Calls : Overlap(c, d)
    BY DEF vars
  <2>1. IInv
    BY <1>1 DEF CInv
  <2>2. ASSUME NEW c \in Calls, NEW q \in Conversations, NEW g, Written(c, q, g)
        PROVE  /\ call[c].step # "idle" /\ ~Settled(c)
               /\ call[c].conv = k \/ \E d \in Calls : Overlap(c, d)
    <3>1. Writes(call[c]) /\ store' = [store EXCEPT ![q] = call[c].history[q]]
      BY <2>2 DEF Written, Writes
    <3>2. k = q /\ call[c].history[k] # store[k]
      BY <2>1, <3>1 DEF IInv, TypeOK, Table
    <3>3. Unshared(c)
      BY <1>1 DEF CInv
    <3> QED
      BY <2>1, <3>1, <3>2, <3>3, WritersAreUnderWay DEF Unshared
  <2>3. ASSUME NEW c \in Calls, NEW h, Removed(c, h)
        PROVE  call[c].step # "idle" /\ ~Settled(c) /\ call[c].conv = k
    BY <2>1, <2>3 DEF Removed, Settled, IInv, TypeOK, Table
  <2>4. \/ \E c \in Calls, q \in Conversations : \E g : Written(c, q, g)
        \/ \E c \in Calls : \E h : Removed(c, h)
    BY <1>1, <2>1, NextIsOneOf DEF WindsDown, OpensWith, Saved
  <2> QED
    BY <2>2, <2>3, <2>4
<1>2. Spec => [][Kept]_vars
  BY <1>1, CInvHolds, PTL DEF Spec
<1> QED
  BY <1>2 DEF BystandersKeepTheirRows
=============================================================================
