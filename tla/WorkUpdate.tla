----------------------------- MODULE WorkUpdate -----------------------------
(***************************************************************************)
(* Writes to Plane by the backend's PlaneWorkManagementProvider: an update *)
(* looks the work item up in one project after the other, resolves the     *)
(* requested state in the project that the item names, writes there, and   *)
(* reads the item back unless the answer already shows the state.  Each is *)
(* a call to Plane of its own, between which other people use Plane; any   *)
(* call can fail, and the answer of a write can be lost.                   *)
(***************************************************************************)
EXTENDS FiniteSets, Null

CONSTANTS
    Projects, Items, Statuses,
    References,     \* what a caller may name a status by
    Named,          \* the statuses whose id, name or group a reference matches
    Operations,     \* calls of createTask, updateTask and deleteTask
    DefaultProject  \* project of a call that names none

ASSUME WorkAssumption ==
    /\ None \notin Projects \cup Statuses \cup References
    /\ DefaultProject \in Projects
    /\ Named \in [References -> [id : SUBSET Statuses, name : SUBSET Statuses,
                                group : SUBSET Statuses]]

VARIABLES
    visible,    \* projects the account can list
    workflow,   \* statuses of a project
    place,      \* project of an item
    status,     \* status of an item
    work,       \* an operation's next call and what it holds
    shown       \* history: statuses its item had since the operation wrote
plane == <<visible, workflow, place, status>>
workVars == <<plane, work, shown>>

Working == {"list", "find", "states", "update", "verify", "delete", "create"}
Idle == [step |-> "unsent", item |-> None, requested |-> None, reference |-> None,
         delete |-> FALSE, left |-> {}, found |-> None, project |-> None,
         expected |-> None]

WorkInit ==
    /\ visible \in SUBSET Projects
    /\ workflow \in [Projects -> SUBSET Statuses]
    /\ place \in [Items -> Projects \cup {None}]
    /\ status \in [Items -> Statuses \cup {None}]
    /\ \A i \in Items :
           IF place[i] = None THEN status[i] = None ELSE status[i] \in workflow[place[i]]
    /\ work = [c \in Operations |-> Idle]
    /\ shown = [c \in Operations |-> {}]

----------------------------------------------------------------------------
Proceed(c, w) == work' = [work EXCEPT ![c] = w]
To(c, step) == [work[c] EXCEPT !.step = step]
Failed == [Idle EXCEPT !.step = "failed"]

Ask(c, i, p, ref, delete) ==
    /\ work[c].step = "unsent"
    /\ Proceed(c, [Idle EXCEPT !.step = "list", !.item = i, !.requested = p,
                               !.reference = ref, !.delete = delete])
    /\ UNCHANGED <<plane, shown>>

UpdateTask(c, i, p, ref) == Ask(c, i, p, ref, FALSE)
DeleteTask(c, i, p) == Ask(c, i, p, None, TRUE)

CreateTask(c) ==
    /\ work[c].step = "unsent"
    /\ Proceed(c, To(c, "create"))
    /\ UNCHANGED <<plane, shown>>

\* resolveTask: the candidate projects
ListProjects(c) ==
    LET w == work[c] IN
    /\ w.step = "list"
    /\ Proceed(c,
           IF w.requested = None THEN [w EXCEPT !.step = "find", !.left = visible]
           ELSE IF w.requested \in visible
                THEN [w EXCEPT !.step = "find", !.left = {w.requested}] ELSE Failed)
    /\ UNCHANGED <<plane, shown>>

NextCall(w) ==
    IF w.delete THEN "delete" ELSE IF w.reference = None THEN "update" ELSE "states"

\* The item is in p, and Plane's answer names that project or none.
FoundIn(w, p, named) ==
    [w EXCEPT !.step = NextCall(w), !.found = p, !.project = named, !.left = {}]

\* resolveTask: one candidate after the other, in the order Plane lists them
FindTask(c) ==
    LET w == work[c] IN
    /\ w.step = "find"
    /\ \/ w.left = {} /\ Proceed(c, Failed)
       \/ \E p \in w.left :
              \/ /\ place[w.item] = p
                 /\ \E named \in {p, None} : Proceed(c, FoundIn(w, p, named))
              \/ place[w.item] # p /\ Proceed(c, [w EXCEPT !.left = @ \ {p}])
    /\ UNCHANGED <<plane, shown>>

\* call: the project of a call to Plane
Target(w) == IF w.project = None THEN DefaultProject ELSE w.project

\* Mutant: the statuses of the default project do as well.
ListsStatesOfAny(w) == TRUE

\* listProjectStates needs a project.
ListsStates(w) == w.project # None

\* resolveStateReference: an id comes before a name, a name before a group.
Meaning(ref, p) ==
    LET ids == Named[ref].id \cap workflow[p]  names == Named[ref].name \cap workflow[p] IN
    IF ids # {} THEN ids
    ELSE IF names # {} THEN names ELSE Named[ref].group \cap workflow[p]

ResolveState(c) ==
    LET w == work[c]
        matches == IF ListsStates(w) THEN Meaning(w.reference, Target(w)) ELSE {}
    IN  /\ w.step = "states"
        /\ \/ \E s \in matches :
                  /\ Cardinality(matches) = 1
                  /\ Proceed(c, [w EXCEPT !.step = "update", !.expected = s])
           \/ Cardinality(matches) # 1 /\ Proceed(c, Failed)
        /\ UNCHANGED <<plane, shown>>

\* Every operation that has written and not returned sees an item's changes.
Seen(i, s) ==
    [c \in Operations |->
        IF work[c].step = "verify" /\ work[c].item = i THEN shown[c] \cup {s} ELSE shown[c]]

\* Plane: an item is changed in its project, to a status of that project.
Accepts(w) ==
    place[w.item] = Target(w) /\ w.expected \in workflow[Target(w)] \cup {None}

\* The item after a write that Plane accepts; Plane may keep the status.
After(w) == IF w.expected = None THEN {status[w.item]} ELSE {status[w.item], w.expected}

\* verifyUpdatedState: the answer may show the status the item has now.
StepAfterUpdate(w, s) == IF w.expected \in {None, s} THEN "done" ELSE "verify"

Update(c) ==
    LET w == work[c] IN
    /\ w.step = "update"
    /\ \/ /\ Accepts(w)
          /\ \E s \in After(w) :
                 /\ status' = [status EXCEPT ![w.item] = s]
                 /\ shown' = [Seen(w.item, s) EXCEPT ![c] = {s}]
                 /\ \E answer \in {s, None} : \* None: it shows no status
                        Proceed(c, To(c, StepAfterUpdate(w, answer)))
       \/ ~Accepts(w) /\ Proceed(c, Failed) /\ UNCHANGED <<status, shown>>
    /\ UNCHANGED <<visible, workflow, place>>

\* Mutant: that the item is there is enough.
VerifiedByPresence(w) == place[w.item] = Target(w)

Verified(w) == place[w.item] = Target(w) /\ status[w.item] = w.expected

Verify(c) ==
    /\ work[c].step = "verify"
    /\ Proceed(c, IF Verified(work[c]) THEN To(c, "done") ELSE Failed)
    /\ UNCHANGED <<plane, shown>>

Removed(i) ==
    /\ place' = [place EXCEPT ![i] = None]
    /\ status' = [status EXCEPT ![i] = None]
    /\ UNCHANGED <<visible, workflow, shown>>

Delete(c) ==
    LET w == work[c] IN
    /\ w.step = "delete"
    /\ \/ place[w.item] = Target(w) /\ Removed(w.item) /\ Proceed(c, To(c, "done"))
       \/ place[w.item] # Target(w) /\ Proceed(c, Failed)
          /\ UNCHANGED <<plane, shown>>

\* An item comes to have a status of a project.
Put(p, i, s) ==
    /\ place' = [place EXCEPT ![i] = p]
    /\ status' = [status EXCEPT ![i] = s]
    /\ shown' = Seen(i, s)
    /\ UNCHANGED <<visible, workflow>>

Added(p, i, s) == place[i] = None /\ Put(p, i, s)

Create(c) ==
    /\ work[c].step = "create"
    /\ \E i \in Items, s \in workflow[DefaultProject] : Added(DefaultProject, i, s)
    /\ Proceed(c, To(c, "done"))

\* A call fails or its answer is lost: the operation fails, whether or not
\* Plane has carried the call out.
Lose(c) ==
    LET w == work[c] IN
    /\ w.step \in Working
    /\ Proceed(c, Failed)
    /\ \/ UNCHANGED <<plane, shown>>
       \/ w.step = "delete" /\ place[w.item] = Target(w) /\ Removed(w.item)
       \/ w.step = "create"
          /\ \E i \in Items, s \in workflow[DefaultProject] : Added(DefaultProject, i, s)
       \/ /\ w.step = "update" /\ Accepts(w)
          /\ \E s \in After(w) :
                 status' = [status EXCEPT ![w.item] = s] /\ shown' = Seen(w.item, s)
          /\ UNCHANGED <<visible, workflow, place>>

\* Other users of Plane: they delete items; add and move them and change their
\* status; change the statuses of a project, other than those its items have;
\* and grant and withdraw access to projects.
Others ==
    /\ \/ \E i \in Items : place[i] # None /\ Removed(i)
       \/ \E i \in Items, p \in Projects : \E s \in workflow[p] : Put(p, i, s)
       \/ /\ \E p \in Projects, statuses \in SUBSET Statuses :
                 /\ {status[i] : i \in {j \in Items : place[j] = p}} \subseteq statuses
                 /\ workflow' = [workflow EXCEPT ![p] = statuses]
          /\ UNCHANGED <<visible, place, status, shown>>
       \/ visible' \in SUBSET Projects /\ UNCHANGED <<workflow, place, status, shown>>
    /\ UNCHANGED work

WorkNext ==
    \/ \E c \in Operations, i \in Items, p \in Projects \cup {None} :
           \/ \E ref \in References \cup {None} : UpdateTask(c, i, p, ref)
           \/ DeleteTask(c, i, p)
    \/ \E c \in Operations :
           \/ CreateTask(c) \/ ListProjects(c) \/ FindTask(c) \/ ResolveState(c)
           \/ Update(c) \/ Verify(c) \/ Delete(c) \/ Create(c) \/ Lose(c)
    \/ Others

WorkSpec == WorkInit /\ [][WorkNext]_workVars

----------------------------------------------------------------------------
(* The types, and that an item has a status exactly while it is there.     *)
WorkTypeOK ==
    /\ visible \subseteq Projects
    /\ workflow \in [Projects -> SUBSET Statuses]
    /\ place \in [Items -> Projects \cup {None}]
    /\ status \in [Items -> Statuses \cup {None}]
    /\ shown \in [Operations -> SUBSET Statuses]
    /\ \A i \in Items : place[i] = None <=> status[i] = None
    /\ \A c \in Operations :
           /\ work[c].left \subseteq Projects
           /\ work[c].step \in {"states", "update", "verify", "delete"} =>
                  work[c].item \in Items /\ work[c].found \in Projects

Matched(ref) == UNION {Named[ref].id, Named[ref].name, Named[ref].group}

(* workManagement.js 222-224 and 265: an update of the status that returns *)
(* normally asked for a status that the reference matches, and the item    *)
(* has had it since the write, whoever else changes the item meanwhile.    *)
SuccessWasShown ==
    \A c \in Operations :
        work[c].step = "done" /\ work[c].reference # None =>
            work[c].expected \in Matched(work[c].reference) \cap shown[c]

(* workManagement.js 214-277: a write changes no item but its own, and     *)
(* only in the project where it was found, the requested one if there was  *)
(* one, though others move it meanwhile.  If Plane's answer named no       *)
(* project the write goes to the default project instead, where the item   *)
(* may have been moved: such a write never sets a status.                  *)
WritesFollowTheirTask ==
    [][\A c \in Operations :
          LET w == work[c] IN
          w.step \in {"update", "delete"} /\ work'[c] # w =>
              /\ w.requested \in {None, w.found}
              /\ \A i \in Items :
                     <<place'[i], status'[i]>> # <<place[i], status[i]>> =>
                         /\ i = w.item
                         /\ \/ place[i] = w.found
                            \/ w.project = None /\ place[i] = DefaultProject
                               /\ status'[i] \in {None, status[i]}
                         /\ w.reference = None => status'[i] \in {None, status[i]}]_workVars
=============================================================================
