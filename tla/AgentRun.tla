------------------------------ MODULE AgentRun ------------------------------
(***************************************************************************)
(* The agent of the chat backend: AgentService.run (be/src/                *)
(* agentService.js), which lets the model call tools in a bounded loop,    *)
(* over the ToolRegistry (be/src/toolRegistry.js) that lists the tools of  *)
(* the selected MCP servers and executes them.                             *)
(*                                                                         *)
(* server.js creates one registry and one agent for the process.  The      *)
(* registry's tool map and its plane/hrm switches belong to whichever run  *)
(* refreshed them last, and runs interleave at every await.                *)
(*                                                                         *)
(* Of the tools the model keeps one per way of being offered and executed: *)
(* a raw HRM tool, such as the leave preview that asks for a confirmation, *)
(* and three work-management tools, which the registry offers itself and   *)
(* carries out through the raw tools of server plane.                      *)
(***************************************************************************)
EXTENDS Naturals, Sequences, FiniteSets

CONSTANTS
    Runs,           \* chat calls that run the agent
    Clients,        \* configured MCP servers
    MaxIterations,  \* config.maxToolIterations
    MaxCalls        \* bound on the tool calls of one model answer

ASSUME ClientsAssumption == Clients \subseteq {"plane", "hrm"}
ASSUME BoundsAssumption == MaxIterations \in Nat \ {0} /\ MaxCalls \in Nat \ {0}

VARIABLES
    listed,   \* ToolRegistry.tools: the servers whose tools are in the map
    enabled,  \* planeEnabled and hrmEnabled, as the set of enabled servers
    run,      \* the runs
    alone     \* history variable: no other run was active at the same time
agentVars == <<listed, enabled, run, alone>>

----------------------------------------------------------------------------
(* Types *)

WorkTools == {"get_project_tasks", "get_project_statuses", "update_task"}
Tools == {"raw"} \cup WorkTools
ServerOf(t) == IF t \in WorkTools THEN "plane" ELSE "hrm"

Outcomes == {"ok", "failed", "confirm", "refused"}
LogEntry == [tool : Tools, outcome : Outcomes, by : {"model", "completion"}]

Run ==
    [step : {"idle", "refresh", "generate", "tools", "word", "completion",
             "done", "failed"},
     selection : SUBSET Clients,      \* mapping.mcpServers; null selects all
     left : SUBSET Clients,           \* servers refresh has still to list
     pending : BOOLEAN,               \* the message asks for a status change
     known : SUBSET WorkTools,        \* workflow.tasks and statusesByProject
     attempted : BOOLEAN,             \* workflow.updateAttempted
     iteration : 0..(MaxIterations - 1),
     offered : SUBSET Tools,          \* the definitions of the last generate
     calls : Seq(Tools),              \* the tools left to execute, in order
     admitted : {"no", "switch", "yes"}, \* whether the registry lets the first in
     log : Seq(LogEntry)]             \* the tools it executed

IdleRun ==
    [step |-> "idle", selection |-> {}, left |-> {}, pending |-> FALSE,
     known |-> {}, attempted |-> FALSE, iteration |-> 0, offered |-> {},
     calls |-> <<>>, admitted |-> "no", log |-> <<>>]

Active(r) == run[r].step \notin {"idle", "done", "failed"}

AgentInit ==
    /\ listed = {}
    /\ enabled = {"plane", "hrm"}
    /\ run = [r \in Runs |-> IdleRun]
    /\ alone = [r \in Runs |-> TRUE]

\* A run that executes no more tools keeps what it has done.
Toolless(h, step) ==
    [IdleRun EXCEPT !.step = step, !.selection = h.selection,
                    !.attempted = h.attempted, !.log = h.log]

Becomes(r, h) == run' = [run EXCEPT ![r] = h]

----------------------------------------------------------------------------
(* ToolRegistry *)

\* definitions(): raw tools of all listed servers but plane, and the
\* work-management tools while plane is enabled.
Definitions(L, E) ==
    {t \in Tools : IF t \in WorkTools THEN "plane" \in E ELSE ServerOf(t) \in L}

\* The model is asked; definitions() is evaluated when the request is sent.
Request(h, L, E) == [h EXCEPT !.step = "generate", !.offered = Definitions(L, E)]

\* Mutant: the map is not cleared.
AfterClearKept == listed

AfterClear == {}

\* refresh starts: the map is cleared and the switches are set at once, the
\* servers of the selection are listed one after the other.  Without any to
\* list nothing is awaited and the model is asked at once.
Started(selection, pending) ==
    LET h == [IdleRun EXCEPT !.step = "refresh", !.selection = selection,
                             !.left = selection, !.pending = pending]
    IN IF selection = {} THEN Request(h, AfterClear, selection) ELSE h

Start(r) ==
    /\ run[r].step = "idle"
    /\ \E selection \in SUBSET Clients, pending \in BOOLEAN :
           /\ Becomes(r, Started(selection, pending))
           /\ listed' = AfterClear
           /\ enabled' = selection
    /\ alone' = [d \in Runs |->
           IF d = r THEN \A e \in Runs : ~Active(e)
           ELSE alone[d] /\ ~Active(d)]

\* tools/list of one server answers, or fails and leaves the server out.
\* After the last one the model is asked, without another await.
List(r) ==
    /\ run[r].step = "refresh"
    /\ \E s \in run[r].left, found \in BOOLEAN :
        LET h == [run[r] EXCEPT !.left = @ \ {s}]
            L == IF found THEN listed \cup {s} ELSE listed
        IN /\ Becomes(r, IF h.left = {} THEN Request(h, L, enabled) ELSE h)
           /\ listed' = L
    /\ UNCHANGED <<enabled, alone>>

\* execute() begins: a raw tool is looked up in the map, a work-management
\* tool is let in by the switch and looks for the raw tools of plane later.
Admitted(t) ==
    IF t \in WorkTools THEN IF "plane" \in enabled THEN "switch" ELSE "no"
    ELSE IF ServerOf(t) \in listed THEN "yes" ELSE "no"

Execute(h) == [h EXCEPT !.admitted = Admitted(Head(h.calls))]

\* A work-management tool calls the raw tools of plane (workManagement.js);
\* one such call stands for the several it makes.
Delegate(r) ==
    /\ run[r].step \in {"tools", "completion"}
    /\ run[r].admitted = "switch"
    /\ Becomes(r, [run[r] EXCEPT !.admitted = IF "plane" \in listed THEN "yes" ELSE "no"])
    /\ UNCHANGED <<listed, enabled, alone>>

\* What the execution of the first call left can come to.
Results(h) ==
    IF h.admitted = "yes"
    THEN {"ok", "failed"} \cup {o \in {"confirm"} : Head(h.calls) = "raw"}
    ELSE {"refused"}

----------------------------------------------------------------------------
(* AgentService.run *)

\* Mutant: a run that reaches the limit is started over.
NextIterationOver(h) ==
    IF h.iteration + 1 < MaxIterations
    THEN Request([h EXCEPT !.iteration = @ + 1], listed, enabled)
    ELSE Request([h EXCEPT !.iteration = 0, !.log = <<>>], listed, enabled)

\* The next iteration, or error 508 after the last one.
NextIteration(h) ==
    IF h.iteration + 1 < MaxIterations
    THEN Request([h EXCEPT !.iteration = @ + 1], listed, enabled)
    ELSE Toolless(h, "failed")

Answers(S) == UNION {[1..n -> S] : n \in 1..MaxCalls}

\* Mutant: an update made by the model does not count.
CompletionDueAlways(h) == h.pending

\* A requested status change the model has not carried out itself.
CompletionDue(h) == h.pending /\ ~h.attempted

\* completePendingStatusChange looks the task and its statuses up, unless the
\* model's calls have already found them, and then updates the task.
Lookup(h, t) == IF t \in h.known THEN {<<>>, <<t>>} ELSE {<<t>>}

CompletionCalls(h) ==
    {a \o b \o <<"update_task">> :
       a \in Lookup(h, "get_project_tasks"), b \in Lookup(h, "get_project_statuses")}

ToCall(h, step, calls) == Execute([h EXCEPT !.step = step, !.calls = calls])

\* The model answers: with calls of tools it was offered, or in words, which
\* end the run unless a requested status change is still to be completed.
Generate(r) ==
    LET h == run[r] IN
    /\ h.step = "generate"
    /\ \/ \E calls \in Answers(h.offered) :
              Becomes(r, ToCall(h, "tools", calls))
       \/ /\ CompletionDue(h)
          /\ \E calls \in CompletionCalls(h) :
                 Becomes(r, ToCall(h, "completion", calls))
       \/ \E step \in {"done", "failed"} : Becomes(r, Toolless(h, step))
    /\ UNCHANGED <<listed, enabled, alone>>

Logged(h, outcome, by) ==
    LET t == Head(h.calls)
    IN [h EXCEPT !.calls = Tail(@),
                 !.log = Append(@, [tool |-> t, outcome |-> outcome, by |-> by]),
                 !.known = IF outcome = "ok" /\ t \in WorkTools THEN @ \cup {t} ELSE @,
                 !.attempted = @ \/ (t = "update_task" /\ outcome = "ok")]

\* Mutant: a result that requires confirmation is handed back to the model.
AfterToolUnconfirmed(h, outcome) ==
    {IF h.calls = <<>> THEN NextIteration(h) ELSE Execute(h)}

\* After a result that requires confirmation the run answers, without tools,
\* in its own words or the model's; otherwise it goes on with the next call.
AfterTool(h, outcome) ==
    IF outcome = "confirm"
    THEN {Toolless(h, s) : s \in {"done", "word"}}
    ELSE {IF h.calls = <<>> THEN NextIteration(h) ELSE Execute(h)}

Tool(r) ==
    /\ run[r].step = "tools"
    /\ run[r].admitted # "switch"
    /\ \E outcome \in Results(run[r]) :
       \E next \in AfterTool(Logged(run[r], outcome, "model"), outcome) :
           Becomes(r, next)
    /\ UNCHANGED <<listed, enabled, alone>>

\* The model words the request for a confirmation, with no tools on offer.
Word(r) ==
    /\ run[r].step = "word"
    /\ \E step \in {"done", "failed"} : Becomes(r, Toolless(run[r], step))
    /\ UNCHANGED <<listed, enabled, alone>>

\* The completion ends with its update, or at the first lookup that fails or
\* finds no match, where it leaves the model's words alone.
Complete(r) ==
    /\ run[r].step = "completion"
    /\ run[r].admitted # "switch"
    /\ \E outcome \in Results(run[r]) :
           LET h == Logged(run[r], outcome, "completion")
           IN \/ /\ outcome = "ok" /\ h.calls # <<>>
                 /\ Becomes(r, Execute(h))
              \/ Becomes(r, Toolless(h, "done"))
    /\ UNCHANGED <<listed, enabled, alone>>

\* The client closes the response.
Abort(r) ==
    /\ Active(r)
    /\ Becomes(r, Toolless(run[r], "failed"))
    /\ UNCHANGED <<listed, enabled, alone>>

RunStep(r) == \/ List(r) \/ Generate(r) \/ Delegate(r) \/ Tool(r)
              \/ Word(r) \/ Complete(r)

AgentNext == \E r \in Runs : Start(r) \/ RunStep(r) \/ Abort(r)

AgentSpec == AgentInit /\ [][AgentNext]_agentVars

\* MCP servers, Plane and the model answer or fail: their requests have
\* timeouts.  Nothing makes a client start or abort a run.
FairAgentSpec == AgentSpec /\ \A r \in Runs : WF_agentVars(RunStep(r))

----------------------------------------------------------------------------
(* Properties *)

(* Runs and the registry stay within their types.                          *)
AgentTypeOK ==
    /\ listed \subseteq Clients /\ enabled \subseteq {"plane", "hrm"}
    /\ run \in [Runs -> Run]
    /\ alone \in [Runs -> BOOLEAN]

(* A run that shares the registry with no other is offered, and reaches,   *)
(* the servers of its selection only, whatever earlier runs selected.      *)
LoneRunsKeepTheirSelection ==
    \A r \in Runs :
        Active(r) /\ alone[r] =>
            /\ {ServerOf(t) : t \in run[r].offered} \subseteq run[r].selection
            /\ \A i \in DOMAIN run[r].log :
                   \/ ServerOf(run[r].log[i].tool) \in run[r].selection
                   \/ run[r].log[i].outcome = "refused"

(* toolRegistry.js:54-55, "empty array when the user has explicitly        *)
(* selected no MCP server. That must mean "no MCP tools", not "all tools"":*)
(* such a run reaches no server.  It is offered no tool, but the completion*)
(* of a status change goes through the registry that is shared with every  *)
(* run, and a run that refreshes it meanwhile lets the update through.     *)
NoToolsWithoutSelection ==
    \A r \in Runs : run[r].selection = {} =>
        \A i \in DOMAIN run[r].log : run[r].log[i].outcome = "refused"

(* A preview that asks the user for a confirmation is the last thing a run *)
(* does: the model cannot act on it before the user has answered           *)
(* (agentService.js:119-128).                                              *)
ConfirmationEndsRun ==
    \A r \in Runs : \A i \in DOMAIN run[r].log :
        run[r].log[i].outcome = "confirm" => i = Len(run[r].log)

(* The agent's own completion of a status change never repeats an update   *)
(* that succeeded, and is made at most once in a run.                      *)
CompletionNeverRepeats ==
    \A r \in Runs : \A i, j \in DOMAIN run[r].log :
        LET update(k) == run[r].log[k].tool = "update_task"
        IN i < j /\ update(i) /\ update(j) /\ run[r].log[j].by = "completion" =>
             run[r].log[i].by = "model" /\ run[r].log[i].outcome # "ok"

(* Every run ends, however often the model asks for tools: with an answer, *)
(* an error, or the error of the loop limit.                               *)
RunsEnd == \A r \in Runs : Active(r) ~> ~Active(r)
=============================================================================
