---------------------------- MODULE AgentRunProofs ----------------------------
(* Proofs about AgentRun, for every value of its constants. *)
EXTENDS AgentRun, TLAPS

-----------------------------------------------------------------------------
(* The inductive invariant *)

(* A completion has an update only as the last of its calls, and comes     *)
(* after no update but what the model tried in vain.                       *)
Completes(h) ==
    /\ ~h.attempted
    /\ \A i \in DOMAIN h.calls :
           /\ h.calls[i] \in WorkTools
           /\ h.calls[i] = "update_task" => i = Len(h.calls)
    /\ \A i \in DOMAIN h.log : h.log[i].tool = "update_task" =>
           h.log[i].by = "model" /\ h.log[i].outcome # "ok"

(* What a run has executed, by the step it is at: a confirmation and a     *)
(* completion end it, and it completes only what no call has updated.      *)
Executed(h) ==
    /\ h \in Run
    /\ h.step \in {"tools", "completion"} => h.calls # <<>>
    /\ h.step \notin {"completion", "done", "failed"} =>
           \A i \in DOMAIN h.log : h.log[i].by = "model"
    /\ h.step \notin {"word", "done", "failed"} =>
           \A i \in DOMAIN h.log : h.log[i].outcome # "confirm"
    /\ ~h.attempted =>
           \A i \in DOMAIN h.log : h.log[i].tool = "update_task" => h.log[i].outcome # "ok"
    /\ h.step = "completion" => Completes(h)
    /\ \A i \in DOMAIN h.log : h.log[i].outcome = "confirm" => i = Len(h.log)
    /\ \A i, j \in DOMAIN h.log :
           /\ i < j /\ h.log[i].tool = "update_task" /\ h.log[j].tool = "update_task"
           /\ h.log[j].by = "completion"
           => h.log[i].by = "model" /\ h.log[i].outcome # "ok"

(* What a run was offered, has been let into and has reached is of its     *)
(* selection.                                                              *)
Within(h) ==
    /\ \A t \in h.offered : ServerOf(t) \in h.selection
    /\ h.admitted # "no" /\ h.calls # <<>> => ServerOf(Head(h.calls)) \in h.selection
    /\ \A i \in DOMAIN h.log :
           ServerOf(h.log[i].tool) \in h.selection \/ h.log[i].outcome = "refused"

(* No other run is under way, so the registry is as this one set it. *)
Undisturbed(r) ==
    /\ \A e \in Runs \ {r} : ~Active(e)
    /\ listed \subseteq run[r].selection /\ enabled = run[r].selection
    /\ run[r].left \subseteq run[r].selection
    /\ Within(run[r])

IInv ==
    /\ AgentTypeOK
    /\ \A r \in Runs : Executed(run[r])
    /\ \A r \in Runs : Active(r) /\ alone[r] => Undisturbed(r)

-----------------------------------------------------------------------------
(* No run has started. *)
LEMMA InitIInv == AgentInit => IInv
<1> SUFFICES ASSUME AgentInit PROVE IInv
  OBVIOUS
<1>1. IdleRun \in Run /\ IdleRun.step = "idle" /\ IdleRun.log = <<>>
  BY BoundsAssumption DEF IdleRun, Run
<1>2. Executed(IdleRun)
  BY <1>1 DEF Executed
<1>3. \A r \in Runs : run[r] = IdleRun
  BY DEF AgentInit
<1>4. AgentTypeOK
  BY <1>1, ClientsAssumption DEF AgentInit, AgentTypeOK
<1>5. \A r \in Runs : ~Active(r)
  BY <1>1, <1>3 DEF Active
<1> QED
  BY <1>2, <1>3, <1>4, <1>5 DEF IInv

(* A run that is under way moves on: no other run is alone then. *)
LEMMA RunMoves ==
    ASSUME IInv, NEW r \in Runs, NEW h, Active(r), Becomes(r, h),
           UNCHANGED <<enabled, alone>>, listed' \subseteq Clients,
           Executed(h), h.selection = run[r].selection,
           Undisturbed(r) /\ h.step \notin {"idle", "done", "failed"} =>
               /\ listed' \subseteq h.selection
               /\ h.left \subseteq h.selection /\ Within(h)
    PROVE  IInv'
<1>1. run \in [Runs -> Run] /\ h \in Run
  BY DEF IInv, AgentTypeOK, Executed
<1>2. run'[r] = h /\ \A e \in Runs \ {r} : run'[e] = run[e]
  BY <1>1 DEF Becomes
<1>3. AgentTypeOK'
  BY <1>1 DEF IInv, AgentTypeOK, Becomes
<1>4. \A e \in Runs : Executed(run[e])'
  BY <1>2 DEF IInv, Executed, Completes
<1>5. ASSUME NEW e \in Runs, Active(e)', alone'[e] PROVE Undisturbed(e)'
  <2>1. e = r
    <3>1. e # r => Active(e) /\ alone[e]
      BY <1>2, <1>5 DEF Active
    <3> QED
      BY <3>1 DEF IInv, Undisturbed
  <2>2. Undisturbed(r)
    BY <1>5, <2>1 DEF IInv
  <2>3. h.step \notin {"idle", "done", "failed"}
    BY <1>2, <1>5, <2>1 DEF Active
  <2>4. listed' \subseteq h.selection /\ h.left \subseteq h.selection /\ Within(h)
    BY <2>2, <2>3
  <2> QED
    BY <1>2, <2>1, <2>2, <2>4 DEF Undisturbed, Active, Within
<1> QED
  BY <1>3, <1>4, <1>5 DEF IInv

(* definitions() lists tools of the servers it is given. *)
LEMMA DefinitionsWithin ==
    ASSUME NEW L, NEW E, NEW t \in Definitions(L, E)
    PROVE  t \in Tools /\ ServerOf(t) \in L \cup E
BY DEF Definitions, ServerOf

(* The registry lets a tool in by the map or by the switch of its server. *)
LEMMA AdmittedWithin ==
    ASSUME NEW t \in Tools
    PROVE  /\ Admitted(t) \in {"no", "switch", "yes"}
           /\ Admitted(t) # "no" => ServerOf(t) \in listed \cup enabled
BY DEF Admitted, ServerOf

(* What a request to the model changes *)
LEMMA RequestKeeps ==
    ASSUME NEW h \in Run, NEW L, NEW E
    PROVE  LET g == Request(h, L, E)
           IN /\ g \in Run /\ g.step = "generate" /\ g.offered = Definitions(L, E)
              /\ g.log = h.log /\ g.calls = h.calls /\ g.selection = h.selection
              /\ g.left = h.left /\ g.attempted = h.attempted /\ g.admitted = h.admitted
              /\ g.iteration = h.iteration
<1>1. Definitions(L, E) \in SUBSET Tools
  BY DefinitionsWithin
<1> QED
  BY <1>1 DEF Request, Run

(* What is left of a run that executes no more tools *)
LEMMA ToollessKeeps ==
    ASSUME NEW h \in Run, NEW s \in {"word", "done", "failed"}
    PROVE  LET g == Toolless(h, s)
           IN /\ g \in Run /\ g.step = s /\ g.offered = {} /\ g.calls = <<>> /\ g.left = {}
              /\ g.log = h.log /\ g.selection = h.selection
              /\ g.attempted = h.attempted /\ g.admitted = "no"
<1>1. /\ h.log \in Seq(LogEntry) /\ h.selection \in SUBSET Clients
      /\ h.attempted \in BOOLEAN
  BY DEF Run
<1>2. /\ IdleRun \in Run /\ IdleRun.offered = {} /\ IdleRun.calls = <<>>
      /\ IdleRun.left = {} /\ IdleRun.admitted = "no"
  BY BoundsAssumption DEF IdleRun, Run
<1> QED
  BY <1>1, <1>2 DEF Toolless, Run

(* What letting the first call in changes *)
LEMMA ExecuteKeeps ==
    ASSUME NEW h \in Run, h.calls # <<>>
    PROVE  LET g == Execute(h)
           IN /\ g \in Run /\ g.step = h.step /\ g.offered = h.offered
              /\ g.log = h.log /\ g.calls = h.calls /\ g.selection = h.selection
              /\ g.left = h.left /\ g.attempted = h.attempted
              /\ g.admitted # "no" => ServerOf(Head(g.calls)) \in listed \cup enabled
<1>1. h.calls \in Seq(Tools) /\ Head(h.calls) \in Tools
  BY DEF Run
<1> DEFINE a == Admitted(Head(h.calls))
<1>2. /\ a \in {"no", "switch", "yes"}
      /\ a # "no" => ServerOf(Head(h.calls)) \in listed \cup enabled
  BY <1>1, AdmittedWithin
<1> HIDE DEF a
<1>3. Execute(h) = [h EXCEPT !.admitted = a]
  BY DEF Execute, a
<1> QED
  BY <1>2, <1>3 DEF Run

(* refresh clears the map and sets the switches for the run that starts. *)
LEMMA StartKeeps ==
    ASSUME IInv, NEW r \in Runs, Start(r)
    PROVE  IInv'
<1>1. PICK selection \in SUBSET Clients, pending \in BOOLEAN :
        /\ Becomes(r, Started(selection, pending))
        /\ listed' = AfterClear
        /\ enabled' = selection
  BY DEF Start
<1>2. /\ run[r].step = "idle" /\ run \in [Runs -> Run] /\ alone \in [Runs -> BOOLEAN]
      /\ alone' = [d \in Runs |-> IF d = r THEN \A e \in Runs : ~Active(e)
                                  ELSE alone[d] /\ ~Active(d)]
  BY DEF IInv, AgentTypeOK, Start
<1> DEFINE h0 == [IdleRun EXCEPT !.step = "refresh", !.selection = selection,
                                 !.left = selection, !.pending = pending]
           h == IF selection = {} THEN Request(h0, AfterClear, selection) ELSE h0
<1>3. /\ h0 \in Run /\ h0.step = "refresh" /\ h0.selection = selection /\ h0.left = selection
      /\ h0.log = <<>> /\ h0.calls = <<>> /\ h0.offered = {}
  <2>1. IdleRun \in Run /\ IdleRun.log = <<>> /\ IdleRun.calls = <<>> /\ IdleRun.offered = {}
    BY BoundsAssumption DEF IdleRun, Run
  <2> QED
    BY <2>1 DEF Run
<1>4. run' = [run EXCEPT ![r] = h]
  BY <1>1 DEF Becomes, Started
<1> HIDE DEF h0
<1>5. /\ h \in Run /\ h.step \in {"refresh", "generate"} /\ h.selection = selection
      /\ h.left = selection /\ h.log = <<>> /\ h.calls = <<>>
      /\ \A t \in h.offered : ServerOf(t) \in selection
  <2>1. CASE selection = {}
    <3>1. h = Request(h0, AfterClear, selection)
      BY <2>1
    <3> HIDE DEF h
    <3>2. /\ h \in Run /\ h.step = "generate" /\ h.offered = Definitions(AfterClear, selection)
          /\ h.log = h0.log /\ h.calls = h0.calls /\ h.selection = h0.selection
          /\ h.left = h0.left
      BY <1>3, <3>1, RequestKeeps
    <3>3. \A t \in Definitions(AfterClear, selection) : ServerOf(t) \in selection
      BY DefinitionsWithin DEF AfterClear
    <3> QED
      BY <1>3, <3>2, <3>3
  <2>2. CASE selection # {}
    BY <1>3, <2>2
  <2> QED
    BY <2>1, <2>2
<1> HIDE DEF h
<1>6. run'[r] = h /\ \A e \in Runs \ {r} : run'[e] = run[e]
  BY <1>2, <1>4
<1>7. Executed(h)
  BY <1>5 DEF Executed
<1>8. AgentTypeOK'
  <2>1. alone' \in [Runs -> BOOLEAN]
    BY <1>2
  <2>2. run' \in [Runs -> Run]
    BY <1>2, <1>4, <1>5
  <2> QED
    BY <1>1, <2>1, <2>2, ClientsAssumption DEF AgentTypeOK, AfterClear
<1>9. \A e \in Runs : Executed(run[e])'
  BY <1>6, <1>7 DEF IInv, Executed, Completes
<1>10. ASSUME NEW e \in Runs, Active(e)', alone'[e] PROVE Undisturbed(e)'
  <2>1. e = r
    BY <1>2, <1>6, <1>10 DEF Active
  <2>2. \A d \in Runs \ {r} : ~Active(d)'
    BY <1>2, <1>6, <1>10, <2>1 DEF Active
  <2>3. Within(h)
    BY <1>5 DEF Within
  <2> QED
    BY <1>1, <1>5, <1>6, <2>1, <2>2, <2>3 DEF Undisturbed, Within, AfterClear
<1> QED
  BY <1>8, <1>9, <1>10 DEF IInv

(* A step that executes nothing *)
LEMMA StepMoves ==
    ASSUME IInv, NEW r \in Runs, NEW h \in Run, Active(r), Becomes(r, h),
           UNCHANGED <<enabled, alone>>, listed' \subseteq listed \cup run[r].left,
           h.log = run[r].log, h.selection = run[r].selection,
           h.left \subseteq run[r].left, h.attempted = run[r].attempted,
           h.offered \subseteq run[r].offered \/ h.offered = Definitions(listed', enabled),
           h.step # "idle", h.step \in {"tools", "completion"} => h.calls # <<>>,
           h.step = "word" => run[r].step = "word",
           run[r].step = "word" => h.step \in {"done", "failed"},
           run[r].step = "completion" => h.step \in {"completion", "done", "failed"},
           h.step = "completion" =>
               /\ ~h.attempted
               /\ \A i \in DOMAIN h.calls :
                      /\ h.calls[i] \in WorkTools
                      /\ h.calls[i] = "update_task" => i = Len(h.calls),
           h.admitted # "no" /\ h.calls # <<>> =>
               \/ h.calls = run[r].calls /\ run[r].admitted # "no"
               \/ ServerOf(Head(h.calls)) \in listed' \cup enabled
    PROVE  IInv'
<1>1. Executed(run[r]) /\ run[r] \in Run /\ listed \subseteq Clients
  BY DEF IInv, AgentTypeOK
<1>2. run[r].left \subseteq Clients
  BY <1>1 DEF Run
<1>3. run[r].step \notin {"idle", "done", "failed"}
  BY DEF Active
<1>4. h.step = "completion" => Completes(h)
  BY <1>1, <1>3 DEF Executed, Completes
<1>5. Executed(h)
  BY <1>1, <1>3, <1>4 DEF Executed
<1>6. ASSUME Undisturbed(r)
      PROVE  /\ listed' \subseteq h.selection
             /\ h.left \subseteq h.selection /\ Within(h)
  <2>1. listed' \subseteq h.selection /\ enabled = h.selection
    BY <1>6 DEF Undisturbed
  <2>2. \A t \in Definitions(listed', enabled) : ServerOf(t) \in h.selection
    BY <2>1, DefinitionsWithin
  <2> QED
    BY <1>6, <2>1, <2>2 DEF Undisturbed, Within
<1> QED
  BY <1>1, <1>2, <1>5, <1>6, RunMoves

(* A server answers tools/list, or is left out; after the last the model   *)
(* is asked.                                                               *)
LEMMA ListKeeps ==
    ASSUME IInv, NEW r \in Runs, List(r)
    PROVE  IInv'
<1>1. run[r] \in Run /\ run[r].step = "refresh" /\ Active(r)
  BY DEF IInv, AgentTypeOK, List, Active
<1>2. PICK s \in run[r].left, found \in BOOLEAN :
        LET g == [run[r] EXCEPT !.left = @ \ {s}]
            L == IF found THEN listed \cup {s} ELSE listed
        IN /\ Becomes(r, IF g.left = {} THEN Request(g, L, enabled) ELSE g)
           /\ listed' = L
  BY DEF List
<1> DEFINE g == [run[r] EXCEPT !.left = @ \ {s}]
           h == IF g.left = {} THEN Request(g, listed', enabled) ELSE g
<1>3. /\ g \in Run /\ g.step = "refresh" /\ g.left = run[r].left \ {s}
      /\ g.log = run[r].log /\ g.selection = run[r].selection /\ g.calls = run[r].calls
      /\ g.offered = run[r].offered /\ g.attempted = run[r].attempted
      /\ g.admitted = run[r].admitted
  BY <1>1 DEF Run
<1>4. /\ Becomes(r, h) /\ listed' \subseteq listed \cup {s}
      /\ UNCHANGED <<enabled, alone>>
  BY <1>2 DEF List
<1> HIDE DEF g
<1>5. /\ h \in Run /\ h.step \in {"refresh", "generate"} /\ h.left = g.left
      /\ h.log = g.log /\ h.selection = g.selection /\ h.calls = g.calls
      /\ h.attempted = g.attempted /\ h.admitted = g.admitted
      /\ h.offered = g.offered \/ h.offered = Definitions(listed', enabled)
  <2>1. CASE g.left = {}
    <3>1. h = Request(g, listed', enabled)
      BY <2>1
    <3> HIDE DEF h
    <3> QED
      BY <1>3, <3>1, RequestKeeps
  <2>2. CASE g.left # {}
    BY <1>3, <2>2
  <2> QED
    BY <2>1, <2>2
<1> HIDE DEF h
<1> QED
  BY <1>1, <1>3, <1>4, <1>5, StepMoves

(* The run is over, and nothing else changes. *)
LEMMA OnlyStep ==
    ASSUME IInv, NEW r \in Runs, Active(r),
           NEW s \in {"done", "failed"},
           Becomes(r, Toolless(run[r], s)),
           UNCHANGED <<listed, enabled, alone>>
    PROVE  IInv'
<1> DEFINE h == Toolless(run[r], s)
<1>1. /\ h \in Run /\ h.step = s /\ h.offered = {} /\ h.calls = <<>> /\ h.left = {}
      /\ h.log = run[r].log /\ h.selection = run[r].selection
      /\ h.attempted = run[r].attempted
  BY ToollessKeeps DEF IInv, AgentTypeOK
<1>2. Becomes(r, h)
  OBVIOUS
<1> HIDE DEF h
<1> QED
  BY <1>1, <1>2, StepMoves

(* The steps that only end a run. *)
LEMMA WordKeeps ==
    ASSUME IInv, NEW r \in Runs, Word(r)
    PROVE  IInv'
BY OnlyStep DEF Word, Active

LEMMA AbortKeeps ==
    ASSUME IInv, NEW r \in Runs, Abort(r)
    PROVE  IInv'
BY OnlyStep DEF Abort

(* A work-management tool finds the raw tools of plane, or does not. *)
LEMMA DelegateKeeps ==
    ASSUME IInv, NEW r \in Runs, Delegate(r)
    PROVE  IInv'
<1> DEFINE a == IF "plane" \in listed THEN "yes" ELSE "no"
           h == [run[r] EXCEPT !.admitted = a]
<1>1. /\ run[r] \in Run /\ Executed(run[r]) /\ Active(r)
      /\ run[r].step \in {"tools", "completion"} /\ run[r].admitted = "switch"
      /\ UNCHANGED <<listed, enabled, alone>> /\ Becomes(r, h)
  BY DEF IInv, AgentTypeOK, Delegate, Active
<1>2. a \in {"no", "switch", "yes"}
  OBVIOUS
<1> HIDE DEF a
<1>3. /\ h \in Run /\ h.step = run[r].step /\ h.left = run[r].left
      /\ h.log = run[r].log /\ h.selection = run[r].selection /\ h.calls = run[r].calls
      /\ h.offered = run[r].offered /\ h.attempted = run[r].attempted
  BY <1>1, <1>2 DEF Run
<1> HIDE DEF h
<1>4. h.calls # <<>> /\ (h.step = "completion" => Completes(run[r]))
  BY <1>1, <1>3 DEF Executed
<1> QED
  BY <1>1, <1>3, <1>4, StepMoves DEF Completes

(* A completion looks up at most a task and its statuses before it updates. *)
LEMMA CompletionCallsEnd ==
    ASSUME NEW h, NEW calls \in CompletionCalls(h)
    PROVE  /\ calls \in Seq(Tools) /\ calls # <<>>
           /\ \A i \in DOMAIN calls :
                  /\ calls[i] \in WorkTools
                  /\ calls[i] = "update_task" => i = Len(calls)
<1> DEFINE t == "get_project_tasks"
           s == "get_project_statuses"
           u == "update_task"
<1>1. PICK a \in Lookup(h, t), b \in Lookup(h, s) : calls = a \o b \o <<u>>
  BY DEF CompletionCalls
<1>2. a \in {<<>>, <<t>>} /\ b \in {<<>>, <<s>>}
  BY <1>1 DEF Lookup
<1> DEFINE Lookups == WorkTools \ {u}
           ab == a \o b
<1>3. a \in Seq(Lookups) /\ b \in Seq(Lookups)
  <2>1. t \in Lookups /\ s \in Lookups
    BY DEF WorkTools
  <2> HIDE DEF t, s, Lookups
  <2>2. <<>> \in Seq(Lookups) /\ <<t>> \in Seq(Lookups) /\ <<s>> \in Seq(Lookups)
    BY <2>1
  <2> QED
    BY <1>2, <2>2
<1>4. ab \in Seq(Lookups) /\ calls = Append(ab, u)
  <2>1. ab \in Seq(Lookups)
    BY <1>3
  <2>2. ab \o <<u>> = Append(ab, u)
    BY <2>1
  <2> QED
    BY <1>1, <2>1, <2>2
<1>5. u \in WorkTools /\ WorkTools \subseteq Tools
  BY DEF Tools, WorkTools
<1> HIDE DEF ab
<1>6. /\ Len(ab) \in Nat /\ DOMAIN calls = 1..(Len(ab) + 1) /\ Len(calls) = Len(ab) + 1
      /\ \A i \in 1..Len(ab) : calls[i] = ab[i] /\ ab[i] \in Lookups
      /\ calls[Len(ab) + 1] = u
  BY <1>4
<1>7. calls \in Seq(Tools)
  BY <1>4, <1>5
<1>8. ASSUME NEW i \in DOMAIN calls
      PROVE  calls[i] \in WorkTools /\ (calls[i] = u => i = Len(calls))
  <2>1. i \in 1..Len(ab) \/ i = Len(ab) + 1
    BY <1>6
  <2> QED
    BY <1>5, <1>6, <2>1
<1> QED
  BY <1>6, <1>7, <1>8

(* The model calls what it was offered, or ends the loop. *)
LEMMA GenerateKeeps ==
    ASSUME IInv, NEW r \in Runs, Generate(r)
    PROVE  IInv'
<1>1. /\ run[r] \in Run /\ run[r].step = "generate" /\ Active(r)
      /\ UNCHANGED <<listed, enabled, alone>>
  BY DEF IInv, AgentTypeOK, Generate, Active
<1>2. ASSUME NEW step \in {"tools", "completion"}, NEW calls \in Seq(Tools), calls # <<>>,
             step = "completion" =>
                 /\ ~run[r].attempted
                 /\ \A i \in DOMAIN calls :
                        /\ calls[i] \in WorkTools
                        /\ calls[i] = "update_task" => i = Len(calls),
             Becomes(r, ToCall(run[r], step, calls))
      PROVE  IInv'
  <2> DEFINE g == [run[r] EXCEPT !.step = step, !.calls = calls]
             h == Execute(g)
  <2>1. /\ g \in Run /\ g.step = step /\ g.left = run[r].left
        /\ g.log = run[r].log /\ g.selection = run[r].selection /\ g.calls = calls
        /\ g.offered = run[r].offered /\ g.attempted = run[r].attempted
    BY <1>1 DEF Run
  <2>2. Becomes(r, h)
    BY <1>2 DEF ToCall
  <2> HIDE DEF g
  <2>3. /\ h \in Run /\ h.step = step /\ h.left = run[r].left
        /\ h.log = run[r].log /\ h.selection = run[r].selection /\ h.calls = calls
        /\ h.offered = run[r].offered /\ h.attempted = run[r].attempted
        /\ h.admitted # "no" => ServerOf(Head(h.calls)) \in listed \cup enabled
    BY <1>2, <2>1, ExecuteKeeps
  <2> HIDE DEF h
  <2> QED
    BY <1>1, <1>2, <2>2, <2>3, StepMoves
<1>3. CASE \E calls \in Answers(run[r].offered) :
               Becomes(r, ToCall(run[r], "tools", calls))
  <2>1. PICK calls \in Answers(run[r].offered) :
          Becomes(r, ToCall(run[r], "tools", calls))
    BY <1>3
  <2>2. PICK n \in 1..MaxCalls : calls \in [1..n -> run[r].offered]
    BY <2>1 DEF Answers
  <2>3. run[r].offered \subseteq Tools
    BY <1>1 DEF Run
  <2>4. calls \in Seq(Tools) /\ calls # <<>>
    BY <2>2, <2>3, BoundsAssumption
  <2> QED
    BY <1>2, <2>1, <2>4
<1>4. CASE /\ CompletionDue(run[r])
           /\ \E calls \in CompletionCalls(run[r]) :
                  Becomes(r, ToCall(run[r], "completion", calls))
  <2>1. PICK calls \in CompletionCalls(run[r]) :
          Becomes(r, ToCall(run[r], "completion", calls))
    BY <1>4
  <2> QED
    BY <1>2, <1>4, <2>1, CompletionCallsEnd DEF CompletionDue
<1>5. CASE \E step \in {"done", "failed"} : Becomes(r, Toolless(run[r], step))
  BY <1>1, <1>5, OnlyStep
<1> QED
  BY <1>3, <1>4, <1>5 DEF Generate

-----------------------------------------------------------------------------
(* Executing a tool *)

(* g is h with its first call moved to the end of its log as entry e. *)
OneMore(g, h, e) ==
    /\ g \in Run /\ g.step = h.step /\ g.calls = Tail(h.calls) /\ g.selection = h.selection
    /\ g.left = h.left /\ g.offered = h.offered /\ g.iteration = h.iteration
    /\ g.attempted = (h.attempted \/ (e.tool = "update_task" /\ e.outcome = "ok"))
    /\ Len(g.log) = Len(h.log) + 1 /\ Len(h.log) \in Nat
    /\ DOMAIN h.log = 1..Len(h.log) /\ DOMAIN g.log = 1..(Len(h.log) + 1)
    /\ \A i \in 1..Len(h.log) : g.log[i] = h.log[i]
    /\ g.log[Len(h.log) + 1] = e

(* What Logged does *)
LEMMA LoggedEntry ==
    ASSUME NEW h \in Run, h.calls # <<>>, NEW outcome \in Outcomes,
           NEW by \in {"model", "completion"}
    PROVE  OneMore(Logged(h, outcome, by), h,
                   [tool |-> Head(h.calls), outcome |-> outcome, by |-> by])
<1> DEFINE t == Head(h.calls)
           e == [tool |-> t, outcome |-> outcome, by |-> by]
           rest == Tail(h.calls)
           log == Append(h.log, e)
           known == IF outcome = "ok" /\ t \in WorkTools THEN h.known \cup {t} ELSE h.known
           attempted == h.attempted \/ (t = "update_task" /\ outcome = "ok")
<1>1. t \in Tools /\ rest \in Seq(Tools)
  BY DEF Run
<1>2. h.log \in Seq(LogEntry) /\ e \in LogEntry
  BY <1>1 DEF Run, LogEntry
<1>3. known \in SUBSET WorkTools /\ attempted \in BOOLEAN
  BY DEF Run
<1>4. Logged(h, outcome, by) =
        [h EXCEPT !.calls = rest, !.log = log, !.known = known, !.attempted = attempted]
  BY DEF Logged
<1>5. attempted = (h.attempted \/ (e.tool = "update_task" /\ e.outcome = "ok"))
  OBVIOUS
<1> HIDE DEF e, t, known, attempted, rest
<1>6. log \in Seq(LogEntry) /\ Len(log) = Len(h.log) + 1 /\ Len(h.log) \in Nat
      /\ DOMAIN h.log = 1..Len(h.log) /\ DOMAIN log = 1..(Len(h.log) + 1)
      /\ (\A i \in 1..Len(h.log) : log[i] = h.log[i]) /\ log[Len(h.log) + 1] = e
  BY <1>2
<1> HIDE DEF log
<1> DEFINE k == [h EXCEPT !.calls = rest, !.log = log, !.known = known, !.attempted = attempted]
<1>7. /\ k \in Run /\ k.step = h.step /\ k.calls = rest
      /\ k.selection = h.selection /\ k.left = h.left /\ k.offered = h.offered
      /\ k.iteration = h.iteration /\ k.attempted = attempted /\ k.log = log
  BY <1>1, <1>3, <1>6 DEF Run
<1> HIDE DEF k
<1>8. OneMore(k, h, e)
  BY <1>5, <1>6, <1>7 DEF OneMore, rest
<1>9. Logged(h, outcome, by) = k
  BY <1>4 DEF k
<1> QED
  BY <1>8, <1>9 DEF e, t

(* What the first call can come to *)
LEMMA ResultsAre ==
    ASSUME NEW h, NEW outcome \in Results(h)
    PROVE  /\ outcome \in Outcomes
           /\ outcome = "confirm" => Head(h.calls) = "raw"
           /\ outcome # "refused" => h.admitted = "yes"
BY DEF Results, Outcomes

(* A run that has executed one more tool has still ended at its            *)
(* confirmation, and repeated no update.                                   *)
LEMMA ExecutedOneMore ==
    ASSUME NEW h \in Run, Executed(h), NEW g \in Run, NEW e \in LogEntry,
           h.step \in {"tools", "completion"},
           Len(g.log) = Len(h.log) + 1, g.log[Len(h.log) + 1] = e,
           \A i \in 1..Len(h.log) : g.log[i] = h.log[i],
           g.attempted = (h.attempted \/ (e.tool = "update_task" /\ e.outcome = "ok")),
           g.step \in {"generate", "tools", "word", "completion", "done", "failed"},
           g.step \in {"tools", "completion"} => g.calls # <<>>,
           e.outcome = "confirm" => g.step \in {"word", "done", "failed"},
           e.by = "completion" => h.step = "completion" /\ g.step \in {"completion", "done"},
           e.by = "model" => h.step = "tools" /\ g.step # "completion",
           g.step = "completion" =>
               /\ e.tool # "update_task"
               /\ \A i \in DOMAIN g.calls :
                      /\ g.calls[i] \in WorkTools
                      /\ g.calls[i] = "update_task" => i = Len(g.calls)
    PROVE  Executed(g)
<1> DEFINE n == Len(h.log) + 1
<1>1. /\ Len(h.log) \in Nat /\ DOMAIN h.log = 1..Len(h.log) /\ DOMAIN g.log = 1..n
      /\ n \in Nat /\ 1..n = 1..Len(h.log) \cup {n} /\ n \notin 1..Len(h.log)
      /\ \A i \in 1..n : i <= n
  BY DEF Run
<1>2. \A i \in 1..Len(h.log) : h.log[i].outcome # "confirm"
  BY <1>1 DEF Executed
<1>3. e.by \in {"model", "completion"}
  BY DEF LogEntry
<1>4. ASSUME g.step \notin {"completion", "done", "failed"}
      PROVE  \A i \in DOMAIN g.log : g.log[i].by = "model"
  <2>1. e.by = "model" /\ h.step = "tools"
    BY <1>3, <1>4
  <2>2. \A i \in 1..Len(h.log) : h.log[i].by = "model"
    BY <1>1, <2>1 DEF Executed
  <2> QED
    BY <1>1, <2>1, <2>2
<1>5. g.step \notin {"word", "done", "failed"} =>
          \A i \in DOMAIN g.log : g.log[i].outcome # "confirm"
  BY <1>1, <1>2
<1>6. ASSUME ~g.attempted, NEW i \in DOMAIN g.log, g.log[i].tool = "update_task"
      PROVE  g.log[i].outcome # "ok"
  <2>1. ~h.attempted /\ ~(e.tool = "update_task" /\ e.outcome = "ok")
    BY <1>6
  <2>2. \A k \in 1..Len(h.log) : h.log[k].tool = "update_task" => h.log[k].outcome # "ok"
    BY <1>1, <2>1 DEF Executed
  <2> QED
    BY <1>1, <1>6, <2>1, <2>2
<1>7. \A i \in DOMAIN g.log : g.log[i].outcome = "confirm" => i = Len(g.log)
  BY <1>1, <1>2
<1>8. g.step = "completion" => Completes(g)
  <2> SUFFICES ASSUME g.step = "completion" PROVE Completes(g)
    OBVIOUS
  <2>1. h.step = "completion" /\ Completes(h)
    BY <1>3 DEF Executed
  <2>2. ~g.attempted
    BY <2>1 DEF Completes
  <2> QED
    BY <1>1, <2>1, <2>2 DEF Completes
<1>9. ASSUME NEW i \in DOMAIN g.log, NEW j \in DOMAIN g.log, i < j,
             g.log[i].tool = "update_task", g.log[j].tool = "update_task",
             g.log[j].by = "completion"
      PROVE  g.log[i].by = "model" /\ g.log[i].outcome # "ok"
  <2>1. i \in 1..Len(h.log)
    BY <1>1, <1>9
  <2>2. CASE j = n
    <3>1. Completes(h)
      BY <1>9, <2>2 DEF Executed
    <3> QED
      BY <1>1, <1>9, <2>1, <3>1 DEF Completes
  <2>3. CASE j \in 1..Len(h.log)
    BY <1>1, <1>9, <2>1, <2>3 DEF Executed
  <2> QED
    BY <1>1, <2>2, <2>3
<1> QED
  BY <1>4, <1>5, <1>6, <1>7, <1>8, <1>9 DEF Executed

(* The run stays within its selection when a tool has been executed. *)
LEMMA WithinOneMore ==
    ASSUME NEW r \in Runs, Undisturbed(r), NEW g, NEW e, NEW next,
           OneMore(g, run[r], e), run[r].calls # <<>>,
           e.tool = Head(run[r].calls), e.outcome # "refused" => run[r].admitted = "yes",
           next.log = g.log, next.selection = g.selection, next.left \subseteq g.left,
           next.offered \subseteq g.offered \/ next.offered = Definitions(listed, enabled),
           next.admitted # "no" /\ next.calls # <<>> =>
               ServerOf(Head(next.calls)) \in listed \cup enabled
    PROVE  /\ listed \subseteq next.selection /\ next.left \subseteq next.selection
           /\ Within(next)
<1>1. /\ next.selection = run[r].selection /\ next.left \subseteq run[r].left
      /\ listed \subseteq next.selection /\ enabled = next.selection /\ Within(run[r])
      /\ run[r].left \subseteq next.selection
  BY DEF Undisturbed, OneMore
<1>2. \A t \in next.offered : ServerOf(t) \in next.selection
  BY <1>1, DefinitionsWithin DEF OneMore, Within
<1>3. ASSUME NEW i \in DOMAIN next.log
      PROVE  ServerOf(next.log[i].tool) \in next.selection \/ next.log[i].outcome = "refused"
  <2>1. i \in 1..Len(run[r].log) \/ i = Len(run[r].log) + 1
    BY <1>3 DEF OneMore
  <2>2. CASE i \in 1..Len(run[r].log)
    BY <1>1, <2>2 DEF OneMore, Within
  <2>3. CASE i = Len(run[r].log) + 1
    BY <1>1, <2>3 DEF OneMore, Within
  <2> QED
    BY <2>1, <2>2, <2>3
<1> QED
  BY <1>1, <1>2, <1>3 DEF Within

(* After the last of its calls a run asks the model again, or gives up. *)
LEMMA NextIterationIs ==
    ASSUME NEW g \in Run, NEW next, next = NextIteration(g)
    PROVE  /\ next \in Run /\ next.calls \in {g.calls, <<>>} /\ next.log = g.log
           /\ next.selection = g.selection /\ next.left \subseteq g.left
           /\ next.offered \subseteq g.offered \/ next.offered = Definitions(listed, enabled)
           /\ next.attempted = g.attempted /\ next.step \in {"generate", "failed"}
<1>1. CASE g.iteration + 1 < MaxIterations
  <2> DEFINE k == [g EXCEPT !.iteration = @ + 1]
  <2>1. next = Request(k, listed, enabled)
    BY <1>1 DEF NextIteration
  <2>2. g.iteration + 1 \in 0..(MaxIterations - 1)
    BY <1>1, BoundsAssumption DEF Run
  <2>3. /\ k \in Run /\ k.calls = g.calls /\ k.log = g.log /\ k.selection = g.selection
        /\ k.left = g.left /\ k.attempted = g.attempted
    BY <2>2 DEF Run
  <2> HIDE DEF k
  <2> QED
    BY <2>1, <2>3, RequestKeeps
<1>2. CASE ~(g.iteration + 1 < MaxIterations)
  <2>1. next = Toolless(g, "failed")
    BY <1>2 DEF NextIteration
  <2> QED
    BY <2>1, ToollessKeeps
<1> QED
  BY <1>1, <1>2

(* The next call of the model is executed. *)
LEMMA ToolKeeps ==
    ASSUME IInv, NEW r \in Runs, Tool(r)
    PROVE  IInv'
<1> DEFINE h == run[r]
<1>1. h \in Run /\ h.step = "tools" /\ h.calls # <<>> /\ Active(r) /\ Executed(h)
      /\ listed \subseteq Clients /\ UNCHANGED <<listed, enabled, alone>>
  BY DEF IInv, AgentTypeOK, Tool, Active, Executed
<1>2. PICK outcome \in Results(h) :
        \E next \in AfterTool(Logged(h, outcome, "model"), outcome) : Becomes(r, next)
  BY DEF Tool
<1>3. outcome \in Outcomes /\ (outcome # "refused" => h.admitted = "yes")
  BY ResultsAre
<1> DEFINE g == Logged(h, outcome, "model")
           e == [tool |-> Head(h.calls), outcome |-> outcome, by |-> "model"]
<1>4. PICK next \in AfterTool(g, outcome) : Becomes(r, next)
  BY <1>2
<1>5. OneMore(g, h, e)
  BY <1>1, <1>3, LoggedEntry
<1>6. e \in LogEntry
  <2>1. Head(h.calls) \in Tools
    BY <1>1 DEF Run
  <2> QED
    BY <1>3, <2>1 DEF LogEntry
<1>7. e.tool = Head(h.calls) /\ e.outcome = outcome /\ e.by = "model"
  OBVIOUS
<1> HIDE DEF g, h, e
<1>8. /\ g \in Run /\ g.step = "tools" /\ g.selection = h.selection
  BY <1>1, <1>5 DEF OneMore
<1>9. /\ next \in Run /\ next.log = g.log
      /\ next.selection = g.selection /\ next.left \subseteq g.left
      /\ next.offered \subseteq g.offered \/ next.offered = Definitions(listed, enabled)
      /\ next.attempted = g.attempted
      /\ next.step \in {"generate", "tools", "word", "done", "failed"}
      /\ next.step = "tools" => next.calls # <<>>
      /\ outcome = "confirm" => next.step \in {"word", "done", "failed"}
      /\ next.admitted # "no" /\ next.calls # <<>> =>
             ServerOf(Head(next.calls)) \in listed \cup enabled
  <2>1. CASE outcome = "confirm"
    <3>1. PICK s \in {"done", "word"} : next = Toolless(g, s)
      BY <1>4, <2>1 DEF AfterTool
    <3> QED
      BY <1>8, <2>1, <3>1, ToollessKeeps
  <2>2. CASE outcome # "confirm" /\ g.calls # <<>>
    <3>1. next = Execute(g)
      BY <1>4, <2>2 DEF AfterTool
    <3> QED
      BY <1>8, <2>2, <3>1, ExecuteKeeps
  <2>3. CASE outcome # "confirm" /\ g.calls = <<>>
    <3>1. next = NextIteration(g)
      BY <1>4, <2>3 DEF AfterTool
    <3> QED
      BY <1>8, <2>3, <3>1, NextIterationIs
  <2> QED
    BY <2>1, <2>2, <2>3
<1>10. Executed(next)
  BY <1>1, <1>5, <1>6, <1>7, <1>9, ExecutedOneMore DEF OneMore
<1>11. Undisturbed(r) => /\ listed' \subseteq next.selection
                         /\ next.left \subseteq next.selection /\ Within(next)
  <2> SUFFICES ASSUME Undisturbed(r)
               PROVE  /\ listed \subseteq next.selection
                      /\ next.left \subseteq next.selection /\ Within(next)
    BY <1>1
  <2>1. OneMore(g, run[r], e) /\ run[r].calls # <<>> /\ e.tool = Head(run[r].calls)
        /\ (e.outcome # "refused" => run[r].admitted = "yes")
    BY <1>1, <1>3, <1>5, <1>7 DEF h
  <2> QED
    BY <1>9, <2>1, WithinOneMore
<1> QED
  BY <1>1, <1>4, <1>8, <1>9, <1>10, <1>11, RunMoves DEF h

(* The completion looks up or updates the task. *)
LEMMA CompleteKeeps ==
    ASSUME IInv, NEW r \in Runs, Complete(r)
    PROVE  IInv'
<1> DEFINE h == run[r]
<1>1. h \in Run /\ h.step = "completion" /\ h.calls # <<>> /\ Active(r) /\ Executed(h)
      /\ listed \subseteq Clients /\ UNCHANGED <<listed, enabled, alone>> /\ Completes(h)
  BY DEF IInv, AgentTypeOK, Complete, Active, Executed
<1>2. PICK outcome \in Results(h) :
        LET g == Logged(h, outcome, "completion")
        IN \/ outcome = "ok" /\ g.calls # <<>> /\ Becomes(r, Execute(g))
           \/ Becomes(r, Toolless(g, "done"))
  BY DEF Complete
<1>3. /\ outcome \in Outcomes /\ (outcome # "refused" => h.admitted = "yes")
      /\ outcome = "confirm" => Head(h.calls) = "raw"
  BY ResultsAre
<1> DEFINE g == Logged(h, outcome, "completion")
           e == [tool |-> Head(h.calls), outcome |-> outcome, by |-> "completion"]
<1>4. OneMore(g, h, e)
  BY <1>1, <1>3, LoggedEntry
<1>5. e \in LogEntry
  <2>1. Head(h.calls) \in Tools
    BY <1>1 DEF Run
  <2> QED
    BY <1>3, <2>1 DEF LogEntry
<1>6. e.tool = Head(h.calls) /\ e.outcome = outcome /\ e.by = "completion"
  OBVIOUS
<1>7. \/ outcome = "ok" /\ g.calls # <<>> /\ Becomes(r, Execute(g))
      \/ Becomes(r, Toolless(g, "done"))
  BY <1>2
<1> HIDE DEF g, h, e
<1>8. /\ g \in Run /\ g.step = "completion" /\ g.selection = h.selection
      /\ g.calls = Tail(h.calls) /\ h.calls \in Seq(Tools)
  BY <1>1, <1>4 DEF OneMore, Run
<1>9. h.calls[1] = Head(h.calls) /\ 1 \in DOMAIN h.calls
  BY <1>1, <1>8
<1>10. outcome # "confirm"
  <2>1. Head(h.calls) \in WorkTools
    BY <1>1, <1>9 DEF Completes
  <2> QED
    BY <1>3, <2>1 DEF WorkTools
<1>11. ASSUME NEW next, Becomes(r, next), next \in Run, next.log = g.log,
              next.selection = g.selection, next.left \subseteq g.left,
              next.offered \subseteq g.offered, next.attempted = g.attempted,
              next.step \in {"completion", "done"},
              next.step = "completion" =>
                  /\ next.calls = g.calls /\ g.calls # <<>>
                  /\ next.admitted # "no" => ServerOf(Head(g.calls)) \in listed \cup enabled
       PROVE  IInv'
  <2>1. ASSUME next.step = "completion"
        PROVE  /\ e.tool # "update_task"
               /\ \A i \in DOMAIN next.calls :
                      /\ next.calls[i] \in WorkTools
                      /\ next.calls[i] = "update_task" => i = Len(next.calls)
    <3>1. Tail(h.calls) # <<>>
      BY <1>8, <1>11, <2>1
    <3>2. Len(h.calls) # 1
      <4> DEFINE rest == Tail(h.calls)
      <4>1. Len(rest) = Len(h.calls) - 1 /\ rest \in Seq(Tools)
        BY <1>1, <1>8
      <4>2. rest # <<>>
        BY <3>1
      <4> HIDE DEF rest
      <4>3. 1 \in DOMAIN rest
        BY <4>1, <4>2
      <4> QED
        BY <1>8, <4>1, <4>3
    <3>3. e.tool # "update_task"
      BY <1>1, <1>6, <1>9, <3>2 DEF Completes
    <3>4. \A i \in DOMAIN Tail(h.calls) :
              /\ i + 1 \in DOMAIN h.calls /\ Tail(h.calls)[i] = h.calls[i + 1]
              /\ i + 1 = Len(h.calls) => i = Len(Tail(h.calls))
      BY <1>1, <1>8
    <3>5. next.calls = Tail(h.calls)
      BY <1>8, <1>11, <2>1
    <3> QED
      BY <1>1, <1>8, <3>3, <3>4, <3>5 DEF Completes
  <2>2. Executed(next)
    BY <1>1, <1>4, <1>5, <1>6, <1>10, <1>11, <2>1, ExecutedOneMore DEF OneMore
  <2>3. ASSUME Undisturbed(r), next.step = "completion"
        PROVE  listed \subseteq next.selection /\ next.left \subseteq next.selection
               /\ Within(next)
    <3>1. OneMore(g, run[r], e) /\ run[r].calls # <<>> /\ e.tool = Head(run[r].calls)
          /\ (e.outcome # "refused" => run[r].admitted = "yes")
      BY <1>1, <1>3, <1>4, <1>6 DEF h
    <3> QED
      BY <1>11, <2>3, <3>1, WithinOneMore
  <2> QED
    BY <1>1, <1>4, <1>8, <1>11, <2>2, <2>3, RunMoves DEF h
<1>12. CASE outcome = "ok" /\ g.calls # <<>> /\ Becomes(r, Execute(g))
  BY <1>8, <1>11, <1>12, ExecuteKeeps
<1>13. CASE Becomes(r, Toolless(g, "done"))
  <2> DEFINE next == Toolless(g, "done")
  <2>1. /\ next \in Run /\ next.log = g.log /\ next.selection = g.selection
        /\ next.left = {} /\ next.step = "done"
        /\ next.offered = {} /\ next.attempted = g.attempted
    BY <1>8, ToollessKeeps
  <2>2. Becomes(r, next)
    BY <1>13
  <2> HIDE DEF next
  <2> QED
    BY <1>11, <2>1, <2>2
<1> QED
  BY <1>7, <1>12, <1>13

(* Every step keeps the invariant. *)
LEMMA NextIInv ==
    ASSUME IInv, [AgentNext]_agentVars
    PROVE  IInv'
<1>1. ASSUME NEW r \in Runs, Start(r) \/ RunStep(r) \/ Abort(r) PROVE IInv'
  BY <1>1, StartKeeps, ListKeeps, GenerateKeeps, DelegateKeeps, ToolKeeps, WordKeeps,
     CompleteKeeps, AbortKeeps DEF RunStep
<1>2. CASE UNCHANGED agentVars
  BY <1>2 DEF agentVars, IInv, AgentTypeOK, Executed, Completes, Undisturbed, Within, Active
<1> QED
  BY <1>1, <1>2 DEF AgentNext

-----------------------------------------------------------------------------
(* What holds of every run *)

(* The invariant holds in every behaviour. *)
LEMMA Invariance == AgentSpec => []IInv
BY InitIInv, NextIInv, PTL DEF AgentSpec

(* Runs and the registry stay within their types. *)
THEOREM AgentTypeCorrect == AgentSpec => []AgentTypeOK
<1>1. IInv => AgentTypeOK
  BY DEF IInv
<1> QED
  BY <1>1, Invariance, PTL

(* agentService.js 119-128: a run executes nothing after a preview that    *)
(* requires the user's confirmation, whatever other runs do.               *)
THEOREM ConfirmationsEndRuns == AgentSpec => []ConfirmationEndsRun
<1>1. IInv => ConfirmationEndsRun
  BY DEF IInv, Executed, ConfirmationEndsRun
<1> QED
  BY <1>1, Invariance, PTL

(* A status change that the model carried out is not carried out again by  *)
(* the completion, which runs at most once.                                *)
THEOREM CompletionsAreSingle == AgentSpec => []CompletionNeverRepeats
<1>1. IInv => CompletionNeverRepeats
  BY DEF IInv, Executed, CompletionNeverRepeats
<1> QED
  BY <1>1, Invariance, PTL

(* A run that shares the registry with no other is offered tools of its    *)
(* own selection, and reaches the servers of its selection, only.          *)
THEOREM LoneRunsAreScoped == AgentSpec => []LoneRunsKeepTheirSelection
<1>1. IInv => LoneRunsKeepTheirSelection
  BY DEF IInv, Undisturbed, Within, LoneRunsKeepTheirSelection
<1> QED
  BY <1>1, Invariance, PTL
=============================================================================
