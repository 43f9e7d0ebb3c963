---------------------------- MODULE RecordProofs ----------------------------
(***************************************************************************)
(* Proofs about the parts that read and write records for a user, for      *)
(* every value of their constants: WorkUpdate, the task operations of the  *)
(* backend on Plane; EmployeeDirectory, the writes of hrm-server to        *)
(* companies, employees and identity links; StaffReads, what hrm-server    *)
(* shows of its staff.  They share no state; the last section composes     *)
(* them with the parts of AccessProofs and AgentRunProofs.                 *)
(***************************************************************************)
EXTENDS MCParts, AccessProofs, AgentRunProofs, TLAPS

-----------------------------------------------------------------------------
(* Task updates: what an operation has resolved is what it was             *)
(* asked for, and once it has written it misses no status of its item.     *)

Work ==
    [step : Working \cup {"unsent", "done", "failed"}, item : Items \cup {None},
     requested : Projects \cup {None}, reference : References \cup {None},
     delete : BOOLEAN, left : SUBSET Projects, found : Projects \cup {None},
     project : Projects \cup {None}, expected : Statuses \cup {None}]

Located == {"states", "update", "verify", "delete"}

AsRequested(w) ==
    /\ w.step \in {"list", "find"} \cup Located => w.item \in Items
    /\ w.step = "find" /\ w.requested # None => w.left \subseteq {w.requested}
    /\ w.step \in Located =>
           /\ w.found \in Projects /\ w.project \in {None, w.found}
           /\ w.requested \in {None, w.found}
    /\ w.step \in {"update", "verify"} /\ w.reference # None => w.project # None

AsNamed(w) ==
    /\ w.step \in {"unsent", "create", "delete"} \/ w.delete => w.reference = None
    /\ w.step = "states" => w.reference # None
    /\ w.step \in {"list", "find", "update"} /\ w.reference = None => w.expected = None
    /\ w.step \in {"update", "verify"} /\ w.reference # None =>
           w.expected \in Matched(w.reference)
    /\ w.step = "verify" => w.expected # None

MissesNothing(c) ==
    work[c].step = "verify" => status[work[c].item] \in shown[c] \cup {None}

WorkInv ==
    /\ WorkTypeOK
    /\ work \in [Operations -> Work]
    /\ \A c \in Operations :
           AsRequested(work[c]) /\ AsNamed(work[c]) /\ MissesNothing(c)
    /\ SuccessWasShown

-----------------------------------------------------------------------------
LEMMA WorkInvInit == WorkInit => WorkInv
BY WorkAssumption
   DEF WorkInit, WorkInv, WorkTypeOK, Work, Working, Idle, AsRequested, AsNamed,
       MissesNothing, Located, SuccessWasShown

(* An operation that only reads Plane, or has nothing more to ask.         *)
LEMMA ReadingKeeps ==
    ASSUME WorkInv, NEW c \in Operations, NEW w \in Work, Proceed(c, w),
           UNCHANGED <<plane, shown>>,
           AsRequested(w), AsNamed(w), w.step # "verify",
           w.step = "done" => w.reference = None
                              \/ w.expected \in Matched(w.reference) \cap shown[c]
    PROVE  WorkInv'
<1>1. work' = [work EXCEPT ![c] = w] /\ UNCHANGED <<visible, workflow, place, status, shown>>
  BY DEF Proceed, plane
<1>2. work' \in [Operations -> Work] /\ work'[c] = w
      /\ \A d \in Operations \ {c} : work'[d] = work[d]
  BY <1>1 DEF WorkInv
<1>3. WorkTypeOK'
  BY <1>1, <1>2 DEF WorkInv, WorkTypeOK, Work, AsRequested, Located
<1>4. \A d \in Operations : (AsRequested(work[d]) /\ AsNamed(work[d]) /\ MissesNothing(d))'
  BY <1>1, <1>2 DEF WorkInv, MissesNothing, AsRequested, AsNamed
<1>5. SuccessWasShown'
  BY <1>1, <1>2 DEF WorkInv, SuccessWasShown
<1> QED
  BY <1>2, <1>3, <1>4, <1>5 DEF WorkInv

LEMMA AskKeeps ==
    ASSUME WorkInv, NEW c \in Operations, NEW i \in Items,
           NEW p \in Projects \cup {None}, NEW ref \in References \cup {None},
           NEW delete \in BOOLEAN, delete => ref = None, Ask(c, i, p, ref, delete)
    PROVE  WorkInv'
<1> DEFINE w == [Idle EXCEPT !.step = "list", !.item = i, !.requested = p,
                             !.reference = ref, !.delete = delete]
<1>1. w \in Work /\ AsRequested(w) /\ AsNamed(w) /\ w.step = "list"
  BY DEF Idle, Work, Working, AsRequested, AsNamed, Located
<1>2. Proceed(c, w) /\ UNCHANGED <<plane, shown>>
  BY DEF Ask
<1> QED
  BY <1>1, <1>2, ReadingKeeps

(* A step of an operation to a state in which it holds nothing new.        *)
LEMMA ToKnown ==
    ASSUME WorkInv, NEW c \in Operations,
           NEW step \in Working \cup {"unsent", "done", "failed"}
    PROVE  /\ To(c, step) \in Work
           /\ To(c, step) = [work[c] EXCEPT !.step = step]
           /\ To(c, step).step = step
           /\ To(c, step).reference = work[c].reference
           /\ To(c, step).expected = work[c].expected
           /\ To(c, step).item = work[c].item
           /\ To(c, step).project = work[c].project
           /\ To(c, step).found = work[c].found
           /\ To(c, step).requested = work[c].requested
           /\ To(c, step).delete = work[c].delete
<1>1. work[c] \in Work
  BY DEF WorkInv
<1> QED
  BY <1>1 DEF To, Work

LEMMA FailedKnown ==
    /\ Failed \in Work /\ Failed.step = "failed" /\ Failed.reference = None
    /\ AsRequested(Failed) /\ AsNamed(Failed)
BY DEF Failed, Idle, Work, AsRequested, AsNamed, Located

LEMMA FailureKeeps ==
    ASSUME WorkInv, NEW c \in Operations, Proceed(c, Failed), UNCHANGED <<plane, shown>>
    PROVE  WorkInv'
BY FailedKnown, ReadingKeeps

LEMMA CreateTaskKeeps ==
    ASSUME WorkInv, NEW c \in Operations, CreateTask(c)
    PROVE  WorkInv'
<1>1. To(c, "create") \in Work /\ To(c, "create").step = "create"
  BY ToKnown DEF Working
<1>2. AsRequested(To(c, "create")) /\ AsNamed(To(c, "create"))
  BY <1>1, ToKnown DEF CreateTask, Working, WorkInv, AsRequested, AsNamed, Located
<1> QED
  BY <1>1, <1>2, ReadingKeeps DEF CreateTask

LEMMA ListProjectsKeeps ==
    ASSUME WorkInv, NEW c \in Operations, ListProjects(c)
    PROVE  WorkInv'
<1> DEFINE w == work[c]
           v(ps) == [w EXCEPT !.step = "find", !.left = ps]
<1>1. w \in Work /\ w.step = "list" /\ AsRequested(w) /\ AsNamed(w) /\ visible \subseteq Projects
  BY DEF ListProjects, WorkInv, WorkTypeOK
<1>2. ASSUME NEW ps \in SUBSET Projects, w.requested # None => ps = {w.requested}
      PROVE  v(ps) \in Work /\ AsRequested(v(ps)) /\ AsNamed(v(ps)) /\ v(ps).step = "find"
  BY <1>1, <1>2 DEF Work, Working, AsRequested, AsNamed, Located
<1>3. CASE w.requested = None
  BY <1>1, <1>2, <1>3, ReadingKeeps DEF ListProjects
<1>4. CASE w.requested # None /\ w.requested \in visible
  BY <1>1, <1>2, <1>4, ReadingKeeps DEF ListProjects
<1>5. CASE w.requested # None /\ w.requested \notin visible
  BY <1>5, FailureKeeps DEF ListProjects
<1> QED
  BY <1>3, <1>4, <1>5

LEMMA FindTaskKeeps ==
    ASSUME WorkInv, NEW c \in Operations, FindTask(c)
    PROVE  WorkInv'
<1> DEFINE w == work[c]
<1>1. w \in Work /\ w.step = "find" /\ AsRequested(w) /\ AsNamed(w)
  BY DEF FindTask, WorkInv
<1>2. CASE Proceed(c, Failed)
  BY <1>2, FailureKeeps DEF FindTask
<1>3. ASSUME NEW p \in w.left, NEW named \in {p, None}, Proceed(c, FoundIn(w, p, named))
      PROVE  WorkInv'
  <2> DEFINE v == FoundIn(w, p, named)
  <2>1. p \in Projects /\ (w.requested = None \/ w.requested = p) /\ w.item \in Items
    BY <1>1 DEF Work, AsRequested
  <2>2. NextCall(w) \in {"delete", "update", "states"}
        /\ (NextCall(w) = "states" => w.reference # None)
        /\ (NextCall(w) = "update" => w.reference = None)
        /\ (NextCall(w) = "delete" => w.delete)
    BY DEF NextCall
  <2>3. v \in Work /\ v.step = NextCall(w) /\ v.found = p /\ v.project = named
        /\ v.requested = w.requested /\ v.item = w.item /\ v.reference = w.reference
        /\ v.expected = w.expected /\ v.delete = w.delete
    BY <1>1, <2>1, <2>2 DEF Work, Working, FoundIn
  <2>4. AsRequested(v)
    BY <2>1, <2>2, <2>3 DEF AsRequested, Located
  <2>5. w.reference # None \/ NextCall(w) # "update" \/ w.expected = None
    BY <1>1 DEF AsNamed
  <2>6. AsNamed(v)
    BY <1>1, <2>2, <2>3, <2>5 DEF AsNamed
  <2> QED
    BY <1>3, <2>2, <2>3, <2>4, <2>6, ReadingKeeps DEF FindTask
<1>4. ASSUME NEW p \in w.left, Proceed(c, [w EXCEPT !.left = @ \ {p}])
      PROVE  WorkInv'
  <2> DEFINE v == [w EXCEPT !.left = @ \ {p}]
  <2>1. v \in Work /\ v.step = "find" /\ AsRequested(v) /\ AsNamed(v)
    BY <1>1 DEF Work, AsRequested, AsNamed, Located
  <2> QED
    BY <1>4, <2>1, ReadingKeeps DEF FindTask
<1> QED
  BY <1>2, <1>3, <1>4 DEF FindTask

(* Whatever a reference means in a project, it matches. *)
LEMMA MeaningMatches ==
    ASSUME NEW ref \in References
    PROVE  /\ Matched(ref) \subseteq Statuses
           /\ \A p : Meaning(ref, p) \subseteq Matched(ref)
BY WorkAssumption DEF Meaning, Matched

LEMMA ResolveStateKeeps ==
    ASSUME WorkInv, NEW c \in Operations, ResolveState(c)
    PROVE  WorkInv'
<1> DEFINE w == work[c]
<1>1. w \in Work /\ w.step = "states" /\ AsRequested(w) /\ AsNamed(w)
  BY DEF ResolveState, WorkInv
<1>2. ASSUME ListsStates(w), NEW s \in Meaning(w.reference, Target(w)),
             Proceed(c, [w EXCEPT !.step = "update", !.expected = s])
      PROVE  WorkInv'
  <2> DEFINE v == [w EXCEPT !.step = "update", !.expected = s]
  <2>1. s \in Matched(w.reference) /\ s \in Statuses
    BY <1>1, MeaningMatches DEF AsNamed, Work
  <2>2. v \in Work /\ v.step = "update" /\ v.expected = s /\ v.reference = w.reference
        /\ v.item = w.item /\ v.project = w.project /\ v.found = w.found
        /\ v.requested = w.requested /\ v.delete = w.delete
    BY <1>1, <2>1 DEF Work, Working
  <2> QED
    BY <1>1, <1>2, <2>1, <2>2, ReadingKeeps
    DEF ResolveState, ListsStates, AsRequested, AsNamed, Located
<1>3. CASE Proceed(c, Failed)
  BY <1>3, FailureKeeps DEF ResolveState
<1> QED
  BY <1>2, <1>3 DEF ResolveState

LEMMA VerifyKeeps ==
    ASSUME WorkInv, NEW c \in Operations, Verify(c)
    PROVE  WorkInv'
<1> DEFINE w == work[c]  v == To(c, "done")
<1>1. w \in Work /\ w.step = "verify" /\ AsRequested(w) /\ AsNamed(w) /\ MissesNothing(c)
  BY DEF Verify, WorkInv
<1>2. CASE Verified(w)
  <2>1. v \in Work /\ v.step = "done" /\ v.reference = w.reference /\ v.expected = w.expected
        /\ v.delete = w.delete
    BY ToKnown
  <2>2. w.reference # None => w.expected \in Matched(w.reference) \cap shown[c]
    BY <1>1, <1>2 DEF AsNamed, MissesNothing, Verified
  <2> QED
    BY <1>1, <1>2, <2>1, <2>2, ReadingKeeps DEF Verify, AsRequested, AsNamed, Located
<1>3. CASE ~Verified(w)
  BY <1>3, FailureKeeps DEF Verify
<1> QED
  BY <1>2, <1>3

-----------------------------------------------------------------------------
(* What a change of an item leaves to an operation that does not make it.  *)
Changed(i, p, s) ==
    /\ place' = [place EXCEPT ![i] = p]
    /\ status' = [status EXCEPT ![i] = s]
    /\ UNCHANGED <<visible, workflow>>

Noticed(d, i, s) ==
    \/ shown'[d] = Seen(i, s)[d]
    \/ s = None /\ shown'[d] = shown[d]

LEMMA OthersNotice ==
    ASSUME WorkInv, NEW i \in Items, NEW p, NEW s \in Statuses \cup {None},
           Changed(i, p, s), NEW d \in Operations,
           Noticed(d, i, s), s = None => shown'[d] = shown[d],
           work'[d] = work[d]
    PROVE  /\ MissesNothing(d)'
           /\ shown[d] \subseteq shown'[d] /\ shown'[d] \subseteq Statuses
<1>1. shown[d] \subseteq Statuses /\ status \in [Items -> Statuses \cup {None}]
      /\ MissesNothing(d)
  BY DEF WorkInv, WorkTypeOK
<1>2. shown'[d] = IF s # None /\ work[d].step = "verify" /\ work[d].item = i
                  THEN shown[d] \cup {s} ELSE shown[d]
  BY DEF Noticed, Seen
<1>3. work[d].step = "verify" =>
          status'[work[d].item] \in shown'[d] \cup {None}
  <2> SUFFICES ASSUME work[d].step = "verify"
               PROVE  status'[work[d].item] \in shown'[d] \cup {None}
    OBVIOUS
  <2>1. work[d].item \in Items
    BY DEF WorkInv, AsRequested, Located
  <2>2. CASE work[d].item = i
    BY <1>1, <1>2, <2>2 DEF Changed
  <2>3. CASE work[d].item # i
    BY <1>1, <1>2, <2>1, <2>3 DEF Changed, MissesNothing
  <2> QED
    BY <2>2, <2>3
<1> QED
  BY <1>1, <1>2, <1>3 DEF MissesNothing

(* The operation that makes the change goes on to w.                       *)
LEMMA ChangeKeeps ==
    ASSUME WorkInv, NEW i \in Items, NEW p \in Projects \cup {None},
           NEW s \in Statuses \cup {None}, p = None <=> s = None, Changed(i, p, s),
           shown' \in [Operations -> SUBSET Statuses],
           NEW c \in Operations, NEW w \in Work, Proceed(c, w),
           \A d \in Operations \ {c} :
               Noticed(d, i, s) /\ (s = None => shown'[d] = shown[d]),
           AsRequested(w), AsNamed(w),
           w.step = "verify" => w.item = i /\ s \in shown'[c],
           w.step = "done" => w.reference = None
                              \/ w.expected \in Matched(w.reference) \cap shown'[c]
    PROVE  WorkInv'
<1>1. work' \in [Operations -> Work] /\ work'[c] = w
      /\ \A d \in Operations \ {c} : work'[d] = work[d]
  BY DEF WorkInv, Proceed
<1>2. \A d \in Operations \ {c} : MissesNothing(d)' /\ shown[d] \subseteq shown'[d]
  BY <1>1, OthersNotice
<1>3. place' \in [Items -> Projects \cup {None}] /\ status' \in [Items -> Statuses \cup {None}]
      /\ \A j \in Items : place'[j] = None <=> status'[j] = None
  BY DEF Changed, WorkInv, WorkTypeOK
<1>4. \A d \in Operations : AsRequested(work'[d]) /\ AsNamed(work'[d])
  BY <1>1 DEF WorkInv
<1>5. WorkTypeOK'
  BY <1>1, <1>3, <1>4 DEF WorkTypeOK, WorkInv, Changed, Work, AsRequested, Located
<1>6. MissesNothing(c)'
  BY <1>1, <1>3 DEF MissesNothing, Changed, WorkInv, WorkTypeOK
<1>7. SuccessWasShown'
  BY <1>1, <1>2 DEF WorkInv, SuccessWasShown
<1> QED
  BY <1>1, <1>2, <1>4, <1>5, <1>6, <1>7 DEF WorkInv, AsRequested, AsNamed

LEMMA SeenKnown ==
    ASSUME WorkInv, NEW i, NEW s \in Statuses
    PROVE  /\ Seen(i, s) \in [Operations -> SUBSET Statuses]
           /\ shown \in [Operations -> SUBSET Statuses]
BY DEF Seen, WorkInv, WorkTypeOK

(* What Plane does for anybody: it removes, adds or changes an item.       *)
LEMMA RemovedChanges ==
    ASSUME WorkInv, NEW i \in Items, Removed(i)
    PROVE  /\ Changed(i, None, None) /\ shown' = shown
           /\ shown' \in [Operations -> SUBSET Statuses]
BY DEF Removed, Changed, WorkInv, WorkTypeOK

LEMMA PutChanges ==
    ASSUME WorkInv, NEW i \in Items, NEW p \in Projects, NEW s \in workflow[p], Put(p, i, s)
    PROVE  /\ Changed(i, p, s) /\ shown' = Seen(i, s)
           /\ shown' \in [Operations -> SUBSET Statuses]
           /\ s \in Statuses /\ s # None /\ p # None
BY WorkAssumption, SeenKnown DEF Put, Changed, WorkInv, WorkTypeOK

LEMMA StatusChanges ==
    ASSUME WorkInv, NEW i \in Items, place[i] # None,
           NEW s \in workflow[place[i]] \cup {status[i]},
           status' = [status EXCEPT ![i] = s], UNCHANGED <<visible, workflow, place>>
    PROVE  /\ Changed(i, place[i], s) /\ s \in Statuses /\ s # None
           /\ place[i] \in Projects /\ Seen(i, s) \in [Operations -> SUBSET Statuses]
<1>1. place[i] \in Projects /\ status[i] \in Statuses
  BY DEF WorkInv, WorkTypeOK
<1>2. s \in Statuses /\ s # None
  BY <1>1, WorkAssumption DEF WorkInv, WorkTypeOK
<1>3. place = [place EXCEPT ![i] = place[i]]
  BY DEF WorkInv, WorkTypeOK
<1> QED
  BY <1>1, <1>2, <1>3, SeenKnown DEF Changed

-----------------------------------------------------------------------------
(* The steps that write. *)

LEMMA DeleteKeeps ==
    ASSUME WorkInv, NEW c \in Operations, Delete(c)
    PROVE  WorkInv'
<1> DEFINE w == work[c]  v == To(c, "done")
<1>1. w \in Work /\ w.step = "delete" /\ AsRequested(w) /\ AsNamed(w)
  BY DEF Delete, WorkInv
<1>2. v \in Work /\ v.step = "done" /\ v.reference = None /\ AsRequested(v) /\ AsNamed(v)
  BY <1>1, ToKnown DEF AsRequested, AsNamed, Located
<1>3. CASE Removed(w.item) /\ Proceed(c, v)
  <2>1. w.item \in Items
    BY <1>1 DEF AsRequested, Located
  <2> QED
    BY <1>2, <1>3, <2>1, RemovedChanges, ChangeKeeps DEF Noticed
<1>4. CASE Proceed(c, Failed) /\ UNCHANGED <<plane, shown>>
  BY <1>4, FailureKeeps
<1> QED
  BY <1>3, <1>4 DEF Delete

LEMMA CreateKeeps ==
    ASSUME WorkInv, NEW c \in Operations, NEW v \in {To(c, "done"), Failed},
           work[c].step = "create", Proceed(c, v),
           NEW i \in Items, NEW s \in workflow[DefaultProject],
           Added(DefaultProject, i, s)
    PROVE  WorkInv'
<1>1. AsNamed(work[c])
  BY DEF WorkInv
<1>2. CASE v = To(c, "done")
  <2>1. v \in Work /\ v.step = "done" /\ v.reference = None /\ AsRequested(v) /\ AsNamed(v)
    BY <1>1, <1>2, ToKnown DEF AsRequested, AsNamed, Located
  <2> QED
    BY <2>1, PutChanges, ChangeKeeps, WorkAssumption DEF Noticed, Added
<1>3. CASE v = Failed
  BY <1>3, FailedKnown, PutChanges, ChangeKeeps, WorkAssumption DEF Noticed, Added
<1> QED
  BY <1>2, <1>3

LEMMA AcceptedWrites ==
    ASSUME WorkInv, NEW c \in Operations, work[c].step = "update", Accepts(work[c]),
           NEW s \in After(work[c])
    PROVE  /\ work[c].item \in Items /\ place[work[c].item] # None
           /\ s \in workflow[place[work[c].item]] \cup {status[work[c].item]}
<1>1. AsRequested(work[c]) /\ work[c] \in Work
  BY DEF WorkInv
<1>2. Target(work[c]) \in Projects
  BY <1>1, WorkAssumption DEF Target, Work
<1> QED
  BY <1>1, <1>2, WorkAssumption DEF Accepts, After, AsRequested, Located

LEMMA UpdateKeeps ==
    ASSUME WorkInv, NEW c \in Operations, Update(c)
    PROVE  WorkInv'
<1> DEFINE w == work[c]
<1>1. w \in Work /\ w.step = "update" /\ AsRequested(w) /\ AsNamed(w)
  BY DEF Update, WorkInv
<1>2. ASSUME Accepts(w), NEW s \in After(w), NEW response \in {s, None},
             status' = [status EXCEPT ![w.item] = s],
             shown' = [Seen(w.item, s) EXCEPT ![c] = {s}],
             Proceed(c, To(c, StepAfterUpdate(w, response))),
             UNCHANGED <<visible, workflow, place>>
      PROVE  WorkInv'
  <2> DEFINE v == To(c, StepAfterUpdate(w, response))
  <2>1. w.item \in Items /\ place[w.item] # None
        /\ s \in workflow[place[w.item]] \cup {status[w.item]}
    BY <1>1, <1>2, AcceptedWrites
  <2>2. /\ Changed(w.item, place[w.item], s) /\ s \in Statuses /\ s # None
        /\ place[w.item] \in Projects /\ Seen(w.item, s) \in [Operations -> SUBSET Statuses]
    BY <1>2, <2>1, StatusChanges
  <2>3. shown' \in [Operations -> SUBSET Statuses] /\ shown'[c] = {s}
        /\ \A d \in Operations \ {c} : shown'[d] = Seen(w.item, s)[d]
    BY <1>2, <2>2
  <2>4. StepAfterUpdate(w, response) \in {"done", "verify"}
        /\ (StepAfterUpdate(w, response) = "verify" => w.expected # None)
        /\ (StepAfterUpdate(w, response) = "done" => w.expected \in {None, s})
    BY DEF StepAfterUpdate
  <2>5. v \in Work /\ v.step = StepAfterUpdate(w, response) /\ v.reference = w.reference
        /\ v.expected = w.expected /\ v.item = w.item /\ v.project = w.project
        /\ v.found = w.found /\ v.requested = w.requested /\ v.delete = w.delete
    BY <2>4, ToKnown DEF Working
  <2>6. AsRequested(v) /\ AsNamed(v)
    BY <1>1, <2>4, <2>5 DEF AsRequested, AsNamed, Located
  <2>7. v.step = "done" =>
            v.reference = None \/ v.expected \in Matched(v.reference) \cap shown'[c]
    <3>1. w.reference # None => w.expected \in Matched(w.reference) /\ w.expected # None
      BY <1>1, MeaningMatches, WorkAssumption DEF AsNamed, Work
    <3> QED
      BY <2>3, <2>4, <2>5, <3>1
  <2> QED
    BY <1>2, <2>1, <2>2, <2>3, <2>5, <2>6, <2>7, ChangeKeeps DEF Noticed
<1>3. CASE Proceed(c, Failed) /\ UNCHANGED <<plane, shown>>
  BY <1>3, FailureKeeps
<1> QED
  BY <1>2, <1>3 DEF Update, plane

LEMMA LoseKeeps ==
    ASSUME WorkInv, NEW c \in Operations, Lose(c)
    PROVE  WorkInv'
<1> DEFINE w == work[c]
<1>1. AsRequested(w) /\ Proceed(c, Failed)
  BY DEF Lose, WorkInv
<1>2. Failed \in Work /\ AsRequested(Failed) /\ AsNamed(Failed) /\ Failed.step = "failed"
  BY FailedKnown
<1>3. CASE UNCHANGED <<plane, shown>>
  BY <1>1, <1>3, FailureKeeps
<1>4. CASE w.step = "delete" /\ Removed(w.item)
  <2>1. w.item \in Items
    BY <1>1, <1>4 DEF AsRequested, Located
  <2> QED
    BY <1>1, <1>2, <1>4, <2>1, RemovedChanges, ChangeKeeps DEF Noticed
<1>5. ASSUME w.step = "create", NEW i \in Items, NEW s \in workflow[DefaultProject],
             Added(DefaultProject, i, s)
      PROVE  WorkInv'
  BY <1>1, <1>5, CreateKeeps
<1>6. ASSUME w.step = "update", Accepts(w), NEW s \in After(w),
             status' = [status EXCEPT ![w.item] = s], shown' = Seen(w.item, s),
             UNCHANGED <<visible, workflow, place>>
      PROVE  WorkInv'
  <2>1. w.item \in Items /\ place[w.item] # None
        /\ s \in workflow[place[w.item]] \cup {status[w.item]}
    BY <1>6, AcceptedWrites
  <2>2. /\ Changed(w.item, place[w.item], s) /\ s \in Statuses /\ s # None
        /\ place[w.item] \in Projects /\ Seen(w.item, s) \in [Operations -> SUBSET Statuses]
    BY <1>6, <2>1, StatusChanges
  <2> QED
    BY <1>1, <1>2, <1>6, <2>1, <2>2, ChangeKeeps DEF Noticed
<1> QED
  BY <1>3, <1>4, <1>5, <1>6 DEF Lose

(* Plane's other users: nobody's next call changes.                        *)
LEMMA OthersKeep ==
    ASSUME WorkInv, Others
    PROVE  WorkInv'
<1> UNCHANGED work
  BY DEF Others
<1>1. ASSUME NEW i \in Items, NEW p \in Projects \cup {None},
             NEW s \in Statuses \cup {None}, p = None <=> s = None, Changed(i, p, s),
             shown' \in [Operations -> SUBSET Statuses],
             \A d \in Operations : Noticed(d, i, s) /\ (s = None => shown'[d] = shown[d])
      PROVE  WorkInv'
  <2>1. \A d \in Operations : MissesNothing(d)' /\ shown[d] \subseteq shown'[d]
    BY <1>1, OthersNotice
  <2>2. WorkTypeOK'
    BY <1>1 DEF Changed, WorkInv, WorkTypeOK
  <2>3. SuccessWasShown'
    BY <2>1 DEF WorkInv, SuccessWasShown
  <2> QED
    BY <2>1, <2>2, <2>3 DEF WorkInv
<1>2. ASSUME NEW i \in Items, Removed(i) PROVE WorkInv'
  BY <1>1, <1>2, RemovedChanges DEF Noticed
<1>3. ASSUME NEW i \in Items, NEW p \in Projects, NEW s \in workflow[p], Put(p, i, s)
      PROVE  WorkInv'
  BY <1>1, <1>3, PutChanges DEF Noticed
<1>4. ASSUME NEW p \in Projects, NEW statuses \in SUBSET Statuses,
             workflow' = [workflow EXCEPT ![p] = statuses],
             UNCHANGED <<visible, place, status, shown>>
      PROVE  WorkInv'
  BY <1>4 DEF WorkInv, WorkTypeOK, MissesNothing, SuccessWasShown
<1>5. ASSUME visible' \in SUBSET Projects, UNCHANGED <<workflow, place, status, shown>>
      PROVE  WorkInv'
  BY <1>5 DEF WorkInv, WorkTypeOK, MissesNothing, SuccessWasShown
<1> QED
  BY <1>2, <1>3, <1>4, <1>5 DEF Others

-----------------------------------------------------------------------------
LEMMA WorkInvStep == WorkInv /\ [WorkNext]_workVars => WorkInv'
<1> SUFFICES ASSUME WorkInv, [WorkNext]_workVars PROVE WorkInv'
  OBVIOUS
<1>1. ASSUME NEW c \in Operations, NEW i \in Items, NEW p \in Projects \cup {None},
             NEW ref \in References \cup {None},
             UpdateTask(c, i, p, ref) \/ DeleteTask(c, i, p)
      PROVE  WorkInv'
  BY <1>1, AskKeeps DEF UpdateTask, DeleteTask
<1>2. ASSUME NEW c \in Operations, CreateTask(c) \/ ListProjects(c) \/ FindTask(c)
      PROVE  WorkInv'
  BY <1>2, CreateTaskKeeps, ListProjectsKeeps, FindTaskKeeps
<1>3. ASSUME NEW c \in Operations,
             ResolveState(c) \/ Update(c) \/ Verify(c) \/ Delete(c) \/ Lose(c)
      PROVE  WorkInv'
  BY <1>3, ResolveStateKeeps, UpdateKeeps, VerifyKeeps, DeleteKeeps, LoseKeeps
<1>4. ASSUME NEW c \in Operations, Create(c) PROVE WorkInv'
  BY <1>4, CreateKeeps DEF Create
<1>5. CASE Others
  BY <1>5, OthersKeep
<1>6. CASE UNCHANGED workVars
  BY <1>6 DEF workVars, plane, WorkInv, WorkTypeOK, MissesNothing, SuccessWasShown
<1> QED
  BY <1>1, <1>2, <1>3, <1>4, <1>5, <1>6 DEF WorkNext

(* Type correctness of WorkUpdate, an item having a status exactly while   *)
(* it is there.                                                            *)
THEOREM WorkTypeCorrect == WorkSpec => []WorkTypeOK
<1>1. WorkInv => WorkTypeOK
  BY DEF WorkInv
<1> QED
  BY WorkInvInit, WorkInvStep, <1>1, PTL DEF WorkSpec

(* workManagement.js 222-224 and 265: a status update reports success only *)
(* for a status it was asked for and its item has had since the write,     *)
(* whoever else uses Plane and whatever answers are lost.                  *)
THEOREM SuccessesWereShown == WorkSpec => []SuccessWasShown
<1>1. WorkInv => SuccessWasShown
  BY DEF WorkInv
<1> QED
  BY WorkInvInit, WorkInvStep, <1>1, PTL DEF WorkSpec

(* workManagement.js 214-277: a write changes no item but the requested    *)
(* one, in the project it was found in, which is the requested one if      *)
(* there was one; only a write that sets no status can fall back to the    *)
(* default project, when Plane's answer named none.                        *)
THEOREM WritesStayWithTheirTask == WorkSpec => WritesFollowTheirTask
<1> DEFINE Follows(c) ==
        LET w == work[c] IN
        /\ w.requested \in {None, w.found}
        /\ \A i \in Items :
               <<place'[i], status'[i]>> # <<place[i], status[i]>> =>
                   /\ i = w.item
                   /\ \/ place[i] = w.found
                      \/ w.project = None /\ place[i] = DefaultProject
                         /\ status'[i] \in {None, status[i]}
                   /\ w.reference = None => status'[i] \in {None, status[i]}
<1>1. ASSUME WorkInv, WorkNext, NEW c \in Operations,
             work[c].step \in {"update", "delete"}, work'[c] # work[c]
      PROVE  Follows(c)
  <2>1. work \in [Operations -> Work] /\ AsRequested(work[c]) /\ AsNamed(work[c])
        /\ place \in [Items -> Projects \cup {None}] /\ status \in [Items -> Statuses \cup {None}]
    BY <1>1 DEF WorkInv, WorkTypeOK
  <2>2. /\ work[c].requested \in {None, work[c].found}
        /\ work[c].project \in {None, work[c].found}
        /\ work[c].step = "update" /\ work[c].reference # None => work[c].project # None
    BY <1>1, <2>1 DEF AsRequested, Located
  <2>3. Update(c) \/ Delete(c) \/ Lose(c)
    <3>1. ASSUME NEW d \in Operations, NEW w, Proceed(d, w) PROVE d = c
      BY <1>1, <2>1, <3>1 DEF Proceed
    <3>2. \A i \in Items, p \in Projects \cup {None} : ~DeleteTask(c, i, p)
             /\ \A ref \in References \cup {None} : ~UpdateTask(c, i, p, ref)
      BY <1>1 DEF UpdateTask, DeleteTask, Ask
    <3>3. ~(CreateTask(c) \/ ListProjects(c) \/ FindTask(c) \/ ResolveState(c)
            \/ Verify(c) \/ Create(c))
      BY <1>1 DEF CreateTask, ListProjects, FindTask, ResolveState, Verify, Create
    <3>4. ~Others
      BY <1>1 DEF Others
    <3>5. ASSUME NEW d \in Operations, NEW i \in Items, NEW p \in Projects \cup {None},
                 NEW ref \in References \cup {None},
                 UpdateTask(d, i, p, ref) \/ DeleteTask(d, i, p)
          PROVE  d = c
      BY <3>1, <3>5 DEF UpdateTask, DeleteTask, Ask
    <3>6. ASSUME NEW d \in Operations,
                 \/ CreateTask(d) \/ ListProjects(d) \/ FindTask(d) \/ ResolveState(d)
                 \/ Update(d) \/ Verify(d) \/ Delete(d) \/ Create(d) \/ Lose(d)
          PROVE  d = c
      <4>1. \E w : Proceed(d, w)
        BY <3>6 DEF CreateTask, ListProjects, FindTask, ResolveState, Update, Verify,
                    Delete, Create, Lose
      <4> QED
        BY <3>1, <4>1
    <3> QED
      BY <1>1, <3>2, <3>3, <3>4, <3>5, <3>6 DEF WorkNext
  <2>4. CASE UNCHANGED <<place, status>>
    BY <2>2, <2>4
  <2>5. CASE Removed(work[c].item) /\ place[work[c].item] = Target(work[c])
    BY <2>1, <2>2, <2>5 DEF Removed, Target
  <2>6. ASSUME work[c].step = "update", Accepts(work[c]), NEW s \in After(work[c]),
               status' = [status EXCEPT ![work[c].item] = s], UNCHANGED place
        PROVE  Follows(c)
    <3>1. work[c].reference = None => s = status[work[c].item]
      BY <2>1, <2>6 DEF AsNamed, After
    <3> QED
      BY <2>1, <2>2, <2>6, <3>1 DEF Accepts, Target
  <2> QED
    BY <1>1, <2>3, <2>4, <2>5, <2>6 DEF Update, Delete, Lose, plane
<1>2. WorkInv /\ [WorkNext]_workVars =>
          [\A c \in Operations :
              work[c].step \in {"update", "delete"} /\ work'[c] # work[c] =>
                  Follows(c)]_workVars
  BY <1>1
<1> QED
  BY WorkInvInit, WorkInvStep, <1>2, PTL DEF WorkSpec, WritesFollowTheirTask

-----------------------------------------------------------------------------
(* Companies, employees and identity links: the inductive invariant adds   *)
(* to the type invariant what a call has found before it writes.           *)

Call == [step : {"idle", "read", "write"}, change : Changes \cup {None},
         as : Link \cup {None}, target : Employees \cup {None}]

Calling(c) ==
    /\ c.step # "idle" => c.as \in Link
    /\ c.step = "write" /\ c.change \in {"update employee", "delete employee", "link"} =>
           c.target \in Employees

EmailsApart ==
    \A e \in Employees : employees[e] # None =>
        ~EmailTaken(e, employees[e].company, employees[e].email)

LinksLead ==
    \A u \in ChatUsers : links[u] # None =>
        /\ At(links[u].employee, links[u].company)
        /\ Linked(links[u].employee, links[u].company) = {u}

DirectoryRows ==
    /\ archived \subseteq Companies
    /\ employees \in [Employees -> Employee \cup {None}]
    /\ links \in [ChatUsers -> Link \cup {None}]

DirectoryInv ==
    /\ DirectoryRows /\ EmailsApart /\ LinksLead
    /\ writer \in [Writers -> Call]
    /\ \A w \in Writers : Calling(writer[w])

-----------------------------------------------------------------------------
(* The seed satisfies it. *)
LEMMA DirectoryInvInit == DirectoryInit => DirectoryInv
<1> SUFFICES ASSUME DirectoryInit PROVE DirectoryInv
  OBVIOUS
<1>1. DirectoryRows
  <2>1. employees \in [Employees -> Employee \cup {None}]
    BY DEF DirectoryInit, Employee
  <2> QED
    BY <2>1 DEF DirectoryInit, DirectoryRows
<1>2. EmailsApart /\ LinksLead
  BY DEF DirectoryInit, EmailsApart, LinksLead
<1>3. NoWriter \in Call /\ Calling(NoWriter)
  BY DEF NoWriter, Call, Calling
<1>4. writer \in [Writers -> Call] /\ \A w \in Writers : writer[w] = NoWriter
  BY <1>3 DEF DirectoryInit
<1> QED
  BY <1>1, <1>2, <1>3, <1>4 DEF DirectoryInv

LEMMA DirectoryInvTyped == DirectoryInv => DirectoryTypeOK
<1> SUFFICES ASSUME DirectoryInv PROVE DirectoryTypeOK
  OBVIOUS
<1>1. \A w \in Writers : /\ writer[w].step \in {"idle", "read", "write"}
                         /\ writer[w].step # "idle" => writer[w].as \in Link
  BY DEF DirectoryInv, Call, Calling
<1> QED
  BY <1>1 DEF DirectoryInv, DirectoryRows, EmailsApart, LinksLead, DirectoryTypeOK

(* A call that moves on, or ends, without a write. *)
LEMMA CallMoves ==
    ASSUME DirectoryInv, NEW w \in Writers, NEW c \in Call, Calling(c),
           writer' = [writer EXCEPT ![w] = c], UNCHANGED directory
    PROVE  DirectoryInv'
<1>1. writer' \in [Writers -> Call] /\ \A v \in Writers : Calling(writer[v])'
  BY DEF DirectoryInv, Calling
<1>2. DirectoryRows' /\ EmailsApart' /\ LinksLead'
  BY DEF DirectoryInv, DirectoryRows, EmailsApart, LinksLead, EmailTaken, At, Linked, directory
<1> QED
  BY <1>1, <1>2 DEF DirectoryInv

LEMMA ArrivedKeeps ==
    ASSUME DirectoryInv, NEW w \in Writers, NEW u \in ChatUsers, NEW change \in Changes,
           Arrived(w, u, change)
    PROVE  DirectoryInv'
<1> DEFINE c == [NoWriter EXCEPT
                    !.step = IF change \in {"create employee", "unlink"} THEN "write" ELSE "read",
                    !.change = change, !.as = links[u]]
<1>1. links[u] \in Link
  BY DEF Arrived, DirectoryInv, DirectoryRows
<1>2. /\ c.change = change /\ c.as = links[u]
      /\ c.step = IF change \in {"create employee", "unlink"} THEN "write" ELSE "read"
  BY DEF NoWriter
<1>3. c \in Call
  BY <1>1 DEF NoWriter, Call
<1>4. writer' = [writer EXCEPT ![w] = c] /\ UNCHANGED directory
  BY DEF Arrived
<1> HIDE DEF c
<1>5. Calling(c)
  BY <1>1, <1>2 DEF Calling
<1> QED
  BY <1>3, <1>4, <1>5, CallMoves

LEMMA ReadsCompanyKeeps ==
    ASSUME DirectoryInv, NEW w \in Writers, ReadsCompany(w)
    PROVE  DirectoryInv'
<1> DEFINE c == [writer[w] EXCEPT !.step = "write"]
<1>1. writer[w] \in Call /\ Calling(writer[w])
  BY DEF DirectoryInv
<1>2. c \in Call
  BY <1>1 DEF Call
<1>3. c.step = "write" /\ c.change = writer[w].change /\ c.as = writer[w].as
  BY <1>1 DEF Call
<1>4. writer' = [writer EXCEPT ![w] = c] /\ UNCHANGED directory
  BY DEF ReadsCompany
<1> HIDE DEF c
<1>5. Calling(c)
  BY <1>1, <1>3 DEF Calling, ReadsCompany
<1> QED
  BY <1>2, <1>4, <1>5, CallMoves

LEMMA ReadsEmployeeKeeps ==
    ASSUME DirectoryInv, NEW w \in Writers, NEW e \in Employees, ReadsEmployee(w, e)
    PROVE  DirectoryInv'
<1> DEFINE c == [writer[w] EXCEPT !.step = "write", !.target = e]
<1>1. writer[w] \in Call /\ Calling(writer[w])
  BY DEF DirectoryInv
<1>2. c \in Call
  BY <1>1 DEF Call
<1>3. c.step = "write" /\ c.target = e /\ c.as = writer[w].as
  BY <1>1 DEF Call
<1>4. writer' = [writer EXCEPT ![w] = c] /\ UNCHANGED directory
  BY DEF ReadsEmployee
<1> HIDE DEF c
<1>5. Calling(c)
  BY <1>1, <1>3 DEF Calling, ReadsEmployee
<1> QED
  BY <1>2, <1>4, <1>5, CallMoves

LEMMA FailsKeeps ==
    ASSUME DirectoryInv, NEW w \in Writers, Fails(w)
    PROVE  DirectoryInv'
<1>1. NoWriter \in Call /\ Calling(NoWriter)
  BY DEF NoWriter, Call, Calling
<1> QED
  BY <1>1, CallMoves DEF Fails

(* A transaction that commits ends its call. *)
LEMMA CommitEnds ==
    ASSUME DirectoryInv, NEW w \in Writers, Commits(w),
           DirectoryRows', EmailsApart', LinksLead'
    PROVE  DirectoryInv'
<1>1. NoWriter \in Call /\ Calling(NoWriter)
  BY DEF NoWriter, Call, Calling
<1>2. writer' = [writer EXCEPT ![w] = NoWriter]
  BY DEF Commits
<1> HIDE DEF NoWriter
<1>3. writer' \in [Writers -> Call] /\ \A v \in Writers : Calling(writer[v])'
  BY <1>1, <1>2 DEF DirectoryInv, Calling
<1> QED
  BY <1>3 DEF DirectoryInv

(* Who writes has an identity, and has found the employee it writes.       *)
LEMMA WriterKnows ==
    ASSUME DirectoryInv, NEW w \in Writers, NEW change, Writes(w, change)
    PROVE  /\ writer[w].as \in Link
           /\ change \in {"update employee", "delete employee", "link"} =>
                  writer[w].target \in Employees
BY DEF DirectoryInv, Calling, Writes

LEMMA CreatesKeeps ==
    ASSUME DirectoryInv, NEW w \in Writers, NEW e \in Employees, NEW m \in Emails,
           CreatesEmployee(w, e, m)
    PROVE  DirectoryInv'
<1> DEFINE k == writer[w].as.company
<1>1. k \in Companies
  BY WriterKnows DEF CreatesEmployee, Link
<1>2. PICK active \in BOOLEAN :
        employees' = [employees EXCEPT ![e] =
            [company |-> k, email |-> m, active |-> active, admin |-> FALSE]]
  BY DEF CreatesEmployee
<1> DEFINE new == [company |-> k, email |-> m, active |-> active, admin |-> FALSE]
<1>3. new \in Employee /\ new.company = k /\ new.email = m
  BY <1>1 DEF Employee
<1>4. employees' = [employees EXCEPT ![e] = new]
  BY <1>2
<1>5. employees[e] = None /\ ~EmailTaken(e, k, m) /\ UNCHANGED <<archived, links>>
  BY DEF CreatesEmployee
<1> HIDE DEF new, k
<1>10. new # None
  BY <1>3, DirectoryAssumption
<1>6. DirectoryRows'
  BY <1>3, <1>4, <1>5 DEF DirectoryInv, DirectoryRows
<1>7. employees'[e] = new /\ \A d \in Employees \ {e} : employees'[d] = employees[d]
  BY <1>4 DEF DirectoryInv, DirectoryRows
<1>8. EmailsApart'
  BY <1>3, <1>5, <1>7, <1>10 DEF DirectoryInv, EmailsApart, EmailTaken, At
<1>9. LinksLead'
  <2>1. ASSUME NEW u \in ChatUsers, links[u] # None
        PROVE  At(links[u].employee, links[u].company)'
    <3>1. links[u].employee \in Employees /\ At(links[u].employee, links[u].company)
      BY <2>1 DEF DirectoryInv, DirectoryRows, LinksLead, Link
    <3> QED
      BY <1>5, <1>7, <3>1 DEF At
  <2> QED
    BY <1>5, <2>1 DEF DirectoryInv, LinksLead, Linked
<1> QED
  BY <1>6, <1>8, <1>9, CommitEnds DEF CreatesEmployee

LEMMA UpdatesEmployeeKeeps ==
    ASSUME DirectoryInv, NEW w \in Writers, UpdatesEmployee(w)
    PROVE  DirectoryInv'
<1> DEFINE e == writer[w].target  k == writer[w].as.company
<1>1. e \in Employees
  BY WriterKnows DEF UpdatesEmployee
<1>2. PICK m \in Emails : \E active \in BOOLEAN :
        /\ ~EmailTaken(e, k, m)
        /\ employees' = [employees EXCEPT ![e] = [@ EXCEPT !.email = m, !.active = active]]
  BY DEF UpdatesEmployee
<1>3. PICK active \in BOOLEAN :
        /\ ~EmailTaken(e, k, m)
        /\ employees' = [employees EXCEPT ![e] = [@ EXCEPT !.email = m, !.active = active]]
  BY <1>2
<1> DEFINE new == [employees[e] EXCEPT !.email = m, !.active = active]
<1>4. employees[e] # None /\ employees[e].company = k /\ UNCHANGED <<archived, links>>
  BY DEF UpdatesEmployee, At
<1>5. employees[e] \in Employee
  BY <1>1, <1>4 DEF DirectoryInv, DirectoryRows
<1>6. new \in Employee
  BY <1>5 DEF Employee
<1>7. new.company = k /\ new.email = m
  BY <1>4, <1>5 DEF Employee
<1>8. new # None
  BY <1>6, DirectoryAssumption
<1>9. employees' = [employees EXCEPT ![e] = new]
  BY <1>3
<1> HIDE DEF new, e, k
<1>10. DirectoryRows'
  BY <1>1, <1>4, <1>6, <1>9 DEF DirectoryInv, DirectoryRows
<1>11. employees'[e] = new /\ \A d \in Employees \ {e} : employees'[d] = employees[d]
  BY <1>1, <1>9 DEF DirectoryInv, DirectoryRows
<1>12. EmailsApart'
  BY <1>1, <1>3, <1>4, <1>7, <1>8, <1>11 DEF DirectoryInv, EmailsApart, EmailTaken, At
<1>13. LinksLead'
  <2>1. ASSUME NEW u \in ChatUsers, links[u] # None
        PROVE  At(links[u].employee, links[u].company)'
    <3>1. links[u].employee \in Employees /\ At(links[u].employee, links[u].company)
      BY <2>1 DEF DirectoryInv, DirectoryRows, LinksLead, Link
    <3> QED
      BY <1>1, <1>4, <1>7, <1>8, <1>11, <3>1 DEF At
  <2> QED
    BY <1>4, <2>1 DEF DirectoryInv, LinksLead, Linked
<1> QED
  BY <1>10, <1>12, <1>13, CommitEnds DEF UpdatesEmployee

(* The identity links of a deleted employee go with it. *)
LEMMA DeletesKeeps ==
    ASSUME DirectoryInv, NEW w \in Writers, DeletesEmployee(w)
    PROVE  DirectoryInv'
<1> DEFINE e == writer[w].target  k == writer[w].as.company
<1>1. e \in Employees
  BY WriterKnows DEF DeletesEmployee
<1>2. CASE ~At(e, k)
  <2>1. UNCHANGED <<employees, links, archived>>
    BY <1>2 DEF DeletesEmployee
  <2>2. DirectoryRows' /\ EmailsApart' /\ LinksLead'
    BY <2>1 DEF DirectoryInv, DirectoryRows, EmailsApart, LinksLead, EmailTaken, At, Linked
  <2> QED
    BY <2>2, CommitEnds DEF DeletesEmployee
<1>3. CASE At(e, k)
  <2>1. /\ employees' = [employees EXCEPT ![e] = None]
        /\ links' = [u \in ChatUsers |-> IF u \in Linked(e, k) THEN None ELSE links[u]]
        /\ archived' = archived
    BY <1>3 DEF DeletesEmployee
  <2>2. employees'[e] = None /\ \A d \in Employees \ {e} : employees'[d] = employees[d]
    BY <1>1, <2>1 DEF DirectoryInv, DirectoryRows
  <2>3. DirectoryRows'
    BY <1>1, <2>1 DEF DirectoryInv, DirectoryRows
  <2>4. EmailsApart'
    BY <2>2 DEF DirectoryInv, EmailsApart, EmailTaken, At
  <2>5. ASSUME NEW u \in ChatUsers, links'[u] # None
        PROVE  /\ links'[u] = links[u] /\ links[u].employee \in Employees \ {e}
               /\ At(links[u].employee, links[u].company)
               /\ Linked(links[u].employee, links[u].company) = {u}
    <3>1. links'[u] = links[u] /\ u \notin Linked(e, k)
      BY <2>1, <2>5
    <3>2. links[u] \in Link /\ At(links[u].employee, links[u].company)
          /\ Linked(links[u].employee, links[u].company) = {u}
      BY <2>5, <3>1 DEF DirectoryInv, DirectoryRows, LinksLead
    <3>3. links[u] = [company |-> links[u].company, employee |-> links[u].employee]
          /\ links[u].employee \in Employees
      BY <3>2 DEF Link
    <3>4. links[u].employee # e
      <4> SUFFICES ASSUME links[u].employee = e PROVE FALSE
        OBVIOUS
      <4>1. links[u].company = k
        BY <1>3, <3>2 DEF At
      <4> QED
        BY <3>1, <3>3, <4>1 DEF Linked
    <3> QED
      BY <3>1, <3>2, <3>3, <3>4
  <2>6. LinksLead'
    <3>1. ASSUME NEW u \in ChatUsers, links'[u] # None
          PROVE  /\ At(links[u].employee, links[u].company)'
                 /\ Linked(links[u].employee, links[u].company)' = {u}
      <4>1. At(links[u].employee, links[u].company)'
        BY <2>2, <2>5, <3>1 DEF At
      <4>2. \A v \in ChatUsers : links'[v] # None => links'[v] = links[v]
        BY <2>5
      <4>3. [company |-> links[u].company, employee |-> links[u].employee] = links[u]
        BY <2>3, <2>5, <3>1 DEF DirectoryRows, Link
      <4>4. Linked(links[u].employee, links[u].company)' = {u}
        BY <2>5, <3>1, <4>2, <4>3 DEF Linked
      <4> QED
        BY <4>1, <4>4
    <3> QED
      BY <3>1 DEF LinksLead
  <2> QED
    BY <2>3, <2>4, <2>6, CommitEnds DEF DeletesEmployee
<1> QED
  BY <1>2, <1>3

(* The unique index on the employee of a link *)
LEMMA LinksKeeps ==
    ASSUME DirectoryInv, NEW w \in Writers, NEW u \in ChatUsers, LinksIdentity(w, u)
    PROVE  DirectoryInv'
<1> DEFINE e == writer[w].target  k == writer[w].as.company
           l == [company |-> k, employee |-> e]
<1>1. e \in Employees /\ k \in Companies
  BY WriterKnows DEF LinksIdentity, Link
<1>2. l \in Link /\ l.employee = e /\ l.company = k
  BY <1>1 DEF Link
<1>3. /\ At(e, k) /\ \A v \in ChatUsers \ {u} : links[v] # l
      /\ links' = [links EXCEPT ![u] = l] /\ UNCHANGED <<archived, employees>>
  BY DEF LinksIdentity, Linked
<1>4. l = [company |-> l.company, employee |-> l.employee]
  BY <1>2
<1> HIDE DEF l, e, k
<1>5. DirectoryRows'
  BY <1>2, <1>3 DEF DirectoryInv, DirectoryRows
<1>6. EmailsApart'
  BY <1>3 DEF DirectoryInv, EmailsApart, EmailTaken, At
<1>7. links'[u] = l /\ \A v \in ChatUsers \ {u} : links'[v] = links[v]
  BY <1>3 DEF DirectoryInv, DirectoryRows
<1>8. LinksLead'
  <2>1. ASSUME NEW v \in ChatUsers, links'[v] # None
        PROVE  /\ At(links[v].employee, links[v].company)'
               /\ Linked(links[v].employee, links[v].company)' = {v}
    <3>1. CASE v = u
      BY <1>2, <1>3, <1>4, <1>7, <3>1 DEF At, Linked
    <3>2. CASE v # u
      <4>1. /\ At(links[v].employee, links[v].company)
            /\ Linked(links[v].employee, links[v].company) = {v}
            /\ links[v] \in Link
        BY <1>7, <2>1, <3>2 DEF DirectoryInv, DirectoryRows, LinksLead
      <4>2. links[v] = [company |-> links[v].company, employee |-> links[v].employee]
        BY <4>1 DEF Link
      <4> QED
        BY <1>3, <1>7, <3>2, <4>1, <4>2 DEF At, Linked
    <3> QED
      BY <3>1, <3>2
  <2> QED
    BY <2>1 DEF LinksLead
<1> QED
  BY <1>5, <1>6, <1>8, CommitEnds DEF LinksIdentity

LEMMA UnlinksKeeps ==
    ASSUME DirectoryInv, NEW w \in Writers, NEW u \in ChatUsers, UnlinksIdentity(w, u)
    PROVE  DirectoryInv'
<1>1. links' = [links EXCEPT ![u] = None] /\ UNCHANGED <<archived, employees>>
  BY DEF UnlinksIdentity
<1>2. DirectoryRows'
  BY <1>1 DEF DirectoryInv, DirectoryRows
<1>3. EmailsApart'
  BY <1>1 DEF DirectoryInv, EmailsApart, EmailTaken, At
<1>4. links'[u] = None /\ \A v \in ChatUsers \ {u} : links'[v] = links[v]
  BY <1>1 DEF DirectoryInv, DirectoryRows
<1>5. LinksLead'
  <2>1. ASSUME NEW v \in ChatUsers, links'[v] # None
        PROVE  /\ At(links[v].employee, links[v].company)'
               /\ Linked(links[v].employee, links[v].company)' = {v}
    <3>1. /\ At(links[v].employee, links[v].company)
          /\ Linked(links[v].employee, links[v].company) = {v}
          /\ v # u /\ links'[v] = links[v]
      BY <1>4, <2>1 DEF DirectoryInv, LinksLead
    <3>2. \A x \in ChatUsers : links'[x] = links[x] \/ links'[x] = None
      BY <1>4
    <3>3. [company |-> links[v].company, employee |-> links[v].employee] # None
      <4>1. links[v] \in Link
        BY <2>1, <3>1 DEF DirectoryInv, DirectoryRows
      <4> QED
        BY <4>1, DirectoryAssumption DEF Link
    <3> QED
      BY <1>1, <3>1, <3>2, <3>3 DEF At, Linked
  <2> QED
    BY <2>1 DEF LinksLead
<1> QED
  BY <1>2, <1>3, <1>5, CommitEnds DEF UnlinksIdentity

LEMMA CompanyKeeps ==
    ASSUME DirectoryInv, NEW w \in Writers, UpdatesCompany(w) \/ ArchivesCompany(w)
    PROVE  DirectoryInv'
<1>1. UNCHANGED <<employees, links>>
  BY DEF UpdatesCompany, ArchivesCompany, directory
<1>2. archived' \subseteq Companies
  <2>1. writer[w].as.company \in Companies
    BY WriterKnows DEF UpdatesCompany, ArchivesCompany, Link
  <2> QED
    BY <2>1 DEF UpdatesCompany, ArchivesCompany, directory, DirectoryInv, DirectoryRows
<1>3. DirectoryRows' /\ EmailsApart' /\ LinksLead'
  BY <1>1, <1>2 DEF DirectoryInv, DirectoryRows, EmailsApart, LinksLead, EmailTaken, At, Linked
<1> QED
  BY <1>3, CommitEnds DEF UpdatesCompany, ArchivesCompany

(* Every step keeps the invariant. *)
LEMMA DirectoryInvNext ==
    ASSUME DirectoryInv, [DirectoryNext]_directoryVars
    PROVE  DirectoryInv'
<1>1. ASSUME NEW w \in Writers,
             \/ \E u \in ChatUsers, change \in Changes : Arrived(w, u, change)
             \/ ReadsCompany(w) \/ \E e \in Employees : ReadsEmployee(w, e)
             \/ Fails(w)
      PROVE  DirectoryInv'
  BY <1>1, ArrivedKeeps, ReadsCompanyKeeps, ReadsEmployeeKeeps, FailsKeeps
<1>2. ASSUME NEW w \in Writers,
             \/ \E e \in Employees, m \in Emails : CreatesEmployee(w, e, m)
             \/ UpdatesEmployee(w) \/ DeletesEmployee(w)
             \/ \E u \in ChatUsers : LinksIdentity(w, u) \/ UnlinksIdentity(w, u)
             \/ UpdatesCompany(w) \/ ArchivesCompany(w)
      PROVE  DirectoryInv'
  BY <1>2, CreatesKeeps, UpdatesEmployeeKeeps, DeletesKeeps, LinksKeeps, UnlinksKeeps,
     CompanyKeeps
<1>3. CASE UNCHANGED directoryVars
  BY <1>3 DEF directoryVars, directory, DirectoryInv, DirectoryRows, EmailsApart, LinksLead,
              EmailTaken, At, Linked, Calling
<1> QED
  BY <1>1, <1>2, <1>3 DEF DirectoryNext

(* Whatever calls overlap, the rows of the directory are of their types,   *)
(* no two employees of a company share an email, and a link leads to one   *)
(* employee of its company, who has no other.                              *)
THEOREM DirectoryTypeCorrect == DirectorySpec => []DirectoryTypeOK
BY DirectoryInvInit, DirectoryInvNext, DirectoryInvTyped, PTL DEF DirectorySpec

-----------------------------------------------------------------------------
(* A change of the directory is one transaction's, and its author's.       *)
LEMMA ChangeIsAuthored ==
    ASSUME DirectoryInv, NEW v \in Writers, directory' # directory,
           \/ \E e \in Employees, m \in Emails : CreatesEmployee(v, e, m)
           \/ UpdatesEmployee(v) \/ DeletesEmployee(v)
           \/ \E u \in ChatUsers : LinksIdentity(v, u) \/ UnlinksIdentity(v, u)
           \/ UpdatesCompany(v) \/ ArchivesCompany(v)
    PROVE  /\ Commits(v) /\ writer[v].as \in Link
           /\ \A d \in Employees : employees[d] = None =>
                  employees'[d] = None \/ ~employees'[d].admin
<1>1. Commits(v) /\ \E change : Writes(v, change)
  BY DEF CreatesEmployee, UpdatesEmployee, DeletesEmployee, LinksIdentity,
         UnlinksIdentity, UpdatesCompany, ArchivesCompany
<1>2. writer[v].as \in Link
  BY <1>1, WriterKnows
<1>3. ASSUME NEW e \in Employees, NEW m \in Emails, CreatesEmployee(v, e, m),
             NEW d \in Employees, employees[d] = None
      PROVE  employees'[d] = None \/ ~employees'[d].admin
  <2>1. PICK active \in BOOLEAN :
          employees' = [employees EXCEPT ![e] =
              [company |-> writer[v].as.company, email |-> m,
               active |-> active, admin |-> FALSE]]
    BY <1>3 DEF CreatesEmployee
  <2>2. CASE d = e
    BY <2>1, <2>2 DEF DirectoryInv, DirectoryRows
  <2>3. CASE d # e
    BY <1>3, <2>1, <2>3 DEF DirectoryInv, DirectoryRows
  <2> QED
    BY <2>2, <2>3
<1>4. ASSUME UpdatesEmployee(v), NEW d \in Employees, employees[d] = None
      PROVE  employees'[d] = None
  BY <1>4 DEF UpdatesEmployee, At, DirectoryInv, DirectoryRows
<1>5. ASSUME DeletesEmployee(v), NEW d \in Employees, employees[d] = None
      PROVE  employees'[d] = None
  BY <1>5 DEF DeletesEmployee, At, DirectoryInv, DirectoryRows
<1>6. ASSUME \/ \E u \in ChatUsers : LinksIdentity(v, u) \/ UnlinksIdentity(v, u)
             \/ UpdatesCompany(v) \/ ArchivesCompany(v)
      PROVE  employees' = employees
  BY <1>6 DEF LinksIdentity, UnlinksIdentity, UpdatesCompany, ArchivesCompany, directory
<1> QED
  BY <1>1, <1>2, <1>3, <1>4, <1>5, <1>6

(* hrm-server/README.md 40-41: every write to the directory has an author  *)
(* among the company's employees once it commits, however old the identity *)
(* that the call resolved; nobody regains a deleted role by the write.     *)
THEOREM WritesAreAuthored == DirectorySpec => WritesHaveAuthors
<1> DEFINE Author(w) ==
        directory' # directory /\ writer'[w] # writer[w] =>
            LET as == writer[w].as IN
            /\ employees'[as.employee] # None
            /\ employees[as.employee] = None => ~employees'[as.employee].admin
<1>1. ASSUME DirectoryInv, [DirectoryNext]_directoryVars
      PROVE  [\A w \in Writers : Author(w)]_directoryVars
  <2> SUFFICES ASSUME NEW w \in Writers, directory' # directory, writer'[w] # writer[w]
               PROVE  Author(w)
    OBVIOUS
  <2>1. PICK v \in Writers :
          \/ \E e \in Employees, m \in Emails : CreatesEmployee(v, e, m)
          \/ UpdatesEmployee(v) \/ DeletesEmployee(v)
          \/ \E u \in ChatUsers : LinksIdentity(v, u) \/ UnlinksIdentity(v, u)
          \/ UpdatesCompany(v) \/ ArchivesCompany(v)
    BY <1>1 DEF DirectoryNext, Arrived, ReadsCompany, ReadsEmployee, Fails, directoryVars
  <2>2. /\ Commits(v) /\ writer[v].as \in Link
        /\ \A d \in Employees : employees[d] = None =>
               employees'[d] = None \/ ~employees'[d].admin
    BY <1>1, <2>1, ChangeIsAuthored
  <2>3. w = v
    BY <1>1, <2>2 DEF Commits, DirectoryInv
  <2>4. writer[w].as.employee \in Employees
    BY <2>2, <2>3 DEF Link
  <2> QED
    BY <2>2, <2>3, <2>4 DEF Commits, Authored
<1> QED
  BY <1>1, DirectoryInvInit, DirectoryInvNext, PTL DEF DirectorySpec, WritesHaveAuthors

-----------------------------------------------------------------------------
(* What staff is shown: the inductive invariant                            *)

Context == [step : {"unsent", "resolved", "records", "done"},
            actor : Staff \cup {None}, team : Teams \cup {None},
            rights : SUBSET Rights, target : Staff \cup {None}]
Asked == [own : BOOLEAN, total : BOOLEAN]
Answer == [table : Tables, rows : SUBSET Staff, query : Asked \cup {None}]

(* While a call is under way, whoever is in the department of its context  *)
(* has been met, and a colleague it looked up as well.                     *)
TeamMet(r) ==
    reader[r].step \in {"resolved", "records"} =>
        /\ reader[r].actor \in Staff
        /\ InTeam(reader[r].team) \subseteq met[r]

TargetDue(r) ==
    reader[r].step = "records" =>
        /\ reader[r].target \in Staff
        /\ IF reader[r].target = reader[r].actor THEN Has(r, "attendance.read.self")
           ELSE reader[r].target \in met[r] /\ Has(r, "attendance.read.team")

(* AnswersAreDue, of one call *)
Due(r) ==
    LET a == answer[r]  own == {reader[r].actor} IN
    /\ reader[r].step = "done" /\ a \in Answer
    /\ a.table = "attendance" => a.rows \subseteq
           (IF Has(r, "attendance.read.self") THEN own ELSE {}) \cup
           (IF Has(r, "attendance.read.team") THEN met[r] ELSE {})
    /\ a.table = "leave" => a.rows \subseteq
           (IF Has(r, "leave.read.self") THEN own ELSE {}) \cup
           (IF Has(r, "leave.approve.team") THEN met[r] \ own ELSE {})
    /\ a.table = "employees" =>
           \/ Has(r, "employee.profile.read.any") \/ Has(r, "organization.manage")
           \/ a.rows \subseteq met[r] \cup own
    /\ a.query # None =>
           /\ a.query.total \/ a.table = "leave" => a.rows \subseteq own
           /\ a.table = "attendance" /\ a.query.own
                  /\ Has(r, "attendance.read.self") => a.rows = own

ReadsInv ==
    /\ ReadsTypeOK
    /\ reader \in [Readers -> Context]
    /\ DOMAIN answer = Readers
    /\ \A r \in Readers :
           /\ TeamMet(r) /\ TargetDue(r)
           /\ answer[r] # None => Due(r)

-----------------------------------------------------------------------------
(* Nothing is resolved or answered yet. *)
LEMMA ReadsInvInit == ReadsInit => ReadsInv
<1> SUFFICES ASSUME ReadsInit PROVE ReadsInv
  OBVIOUS
<1>1. \A r \in Readers : reader[r].step = "unsent" /\ answer[r] = None
  BY DEF ReadsInit, Unread
<1>2. reader \in [Readers -> Context]
  BY DEF ReadsInit, Unread, Context
<1> QED
  BY <1>1, <1>2 DEF ReadsInv, ReadsTypeOK, ReadsInit, TeamMet, TargetDue

(* One call moves on and answers nothing. *)
LEMMA ReaderMoves ==
    ASSUME ReadsInv, NEW r \in Readers, NEW h \in Context, reader[r].step # "done",
           reader' = [reader EXCEPT ![r] = h], UNCHANGED <<member, answer>>,
           met' \in [Readers -> SUBSET Staff], \A q \in Readers \ {r} : met'[q] = met[q],
           h.step # "unsent", h.actor \in Staff,
           TeamMet(r)', TargetDue(r)'
    PROVE  ReadsInv'
<1>1. reader'[r] = h /\ \A q \in Readers \ {r} : reader'[q] = reader[q]
  BY DEF ReadsInv
<1>2. reader' \in [Readers -> Context]
  BY DEF ReadsInv
<1>3. ReadsTypeOK'
  <2>1. ASSUME NEW q \in Readers
        PROVE  /\ reader'[q].step \in {"unsent", "resolved", "records", "done"}
               /\ reader'[q].step # "unsent" =>
                      reader'[q].actor \in Staff /\ reader'[q].team \in Teams \cup {None}
    <3>1. reader'[q] \in Context
      BY <1>2
    <3> QED
      BY <1>1, <3>1 DEF ReadsInv, ReadsTypeOK, Context
  <2> QED
    BY <2>1 DEF ReadsInv, ReadsTypeOK
<1>4. ASSUME NEW q \in Readers
      PROVE  (TeamMet(q) /\ TargetDue(q) /\ (answer[q] # None => Due(q)))'
  <2>1. CASE q = r
    <3>1. answer[r] = None
      BY DEF ReadsInv, Due
    <3> QED
      BY <2>1, <3>1
  <2>2. CASE q # r
    <3>1. reader'[q] = reader[q] /\ met'[q] = met[q]
      BY <1>1, <2>2
    <3> QED
      BY <3>1 DEF ReadsInv, TeamMet, TargetDue, Due, Has, InTeam
  <2> QED
    BY <2>1, <2>2
<1> QED
  BY <1>2, <1>3, <1>4 DEF ReadsInv

LEMMA ResolvesKeeps ==
    ASSUME ReadsInv, NEW r \in Readers, NEW e \in Staff, NEW rights \in SUBSET Rights,
           Resolves(r, e, rights)
    PROVE  ReadsInv'
<1> DEFINE h == [Unread EXCEPT !.step = "resolved", !.actor = e, !.team = member[e],
                               !.rights = rights]
<1>1. /\ h \in Context /\ h.step = "resolved" /\ h.actor = e /\ h.team = member[e]
      /\ h.rights = rights
  BY DEF Context, Unread, ReadsInv, ReadsTypeOK
<1>2. /\ reader[r].step = "unsent" /\ reader' = [reader EXCEPT ![r] = h]
      /\ met' = [met EXCEPT ![r] = InTeam(member[e])]
      /\ UNCHANGED <<member, answer>>
  BY DEF Resolves
<1> HIDE DEF h
<1>3. reader'[r] = h
  BY <1>2 DEF ReadsInv
<1>4. InTeam(member[e]) \subseteq Staff
  BY DEF InTeam
<1>5. /\ met' \in [Readers -> SUBSET Staff] /\ met'[r] = InTeam(member[e])
      /\ \A q \in Readers \ {r} : met'[q] = met[q]
  BY <1>2, <1>4 DEF ReadsInv, ReadsTypeOK
<1>6. TeamMet(r)' /\ TargetDue(r)'
  BY <1>1, <1>2, <1>3, <1>5 DEF TeamMet, TargetDue, InTeam
<1> QED
  BY <1>1, <1>2, <1>5, <1>6, ReaderMoves

LEMMA FindsEmployeeKeeps ==
    ASSUME ReadsInv, NEW r \in Readers, NEW e \in Staff, FindsEmployee(r, e)
    PROVE  ReadsInv'
<1> DEFINE h == [reader[r] EXCEPT !.step = "records", !.target = e]
<1>1. reader[r] \in Context /\ reader[r].step = "resolved" /\ reader[r].actor \in Staff
      /\ TeamMet(r)
  BY DEF ReadsInv, FindsEmployee, TeamMet
<1>2. /\ h \in Context /\ h.step = "records" /\ h.target = e /\ h.actor = reader[r].actor
      /\ h.team = reader[r].team /\ h.rights = reader[r].rights
  BY <1>1 DEF Context
<1>3. reader' = [reader EXCEPT ![r] = h] /\ UNCHANGED <<member, answer, met>>
  BY DEF FindsEmployee
<1> HIDE DEF h
<1>4. reader'[r] = h
  BY <1>3 DEF ReadsInv
<1>5. TeamMet(r)'
  BY <1>1, <1>2, <1>3, <1>4 DEF TeamMet, InTeam
<1>6. TargetDue(r)'
  BY <1>1, <1>2, <1>3, <1>4 DEF TargetDue, TeamMet, FindsEmployee, Has
<1> QED
  BY <1>1, <1>2, <1>3, <1>5, <1>6, ReaderMoves DEF ReadsInv, ReadsTypeOK

LEMMA RefusedKeeps ==
    ASSUME ReadsInv, NEW r \in Readers, Refused(r)
    PROVE  ReadsInv'
<1> DEFINE h == [reader[r] EXCEPT !.step = "done"]
<1>1. reader[r] \in Context /\ reader[r].step # "done" /\ reader[r].actor \in Staff
  BY DEF ReadsInv, Refused, TeamMet
<1>2. h \in Context /\ h.step = "done" /\ h.actor = reader[r].actor
  BY <1>1 DEF Context
<1>3. reader' = [reader EXCEPT ![r] = h] /\ UNCHANGED <<member, answer, met>>
  BY DEF Refused
<1> HIDE DEF h
<1>4. reader'[r] = h
  BY <1>3 DEF ReadsInv
<1>5. TeamMet(r)' /\ TargetDue(r)'
  BY <1>2, <1>4 DEF TeamMet, TargetDue
<1> QED
  BY <1>1, <1>2, <1>3, <1>5, ReaderMoves DEF ReadsInv, ReadsTypeOK

(* A call answers once, and what its rights and its scope make due. *)
LEMMA ReturnsKeeps ==
    ASSUME ReadsInv, NEW r \in Readers, NEW table \in Tables, NEW rows \in SUBSET Staff,
           NEW query \in Asked \cup {None}, Returns(r, table, rows, query),
           reader[r].step \in {"resolved", "records"},
           table = "attendance" => rows \subseteq
               (IF Has(r, "attendance.read.self") THEN {reader[r].actor} ELSE {}) \cup
               (IF Has(r, "attendance.read.team") THEN met[r] ELSE {}),
           table = "leave" => rows \subseteq
               (IF Has(r, "leave.read.self") THEN {reader[r].actor} ELSE {}) \cup
               (IF Has(r, "leave.approve.team") THEN met[r] \ {reader[r].actor} ELSE {}),
           table = "employees" =>
               \/ Has(r, "employee.profile.read.any") \/ Has(r, "organization.manage")
               \/ rows \subseteq met[r] \cup {reader[r].actor},
           query # None =>
               /\ query.total \/ table = "leave" => rows \subseteq {reader[r].actor}
               /\ table = "attendance" /\ query.own
                      /\ Has(r, "attendance.read.self") => rows = {reader[r].actor}
    PROVE  ReadsInv'
<1> DEFINE a == [table |-> table, rows |-> rows, query |-> query]
           h == [reader[r] EXCEPT !.step = "done"]
<1>1. reader[r] \in Context /\ reader[r].actor \in Staff
  BY DEF ReadsInv, TeamMet
<1>2. /\ h \in Context /\ h.step = "done" /\ h.actor = reader[r].actor
      /\ h.rights = reader[r].rights /\ h.team = reader[r].team
  BY <1>1 DEF Context
<1>3. /\ a \in Answer /\ a.table = table /\ a.rows = rows /\ a.query = query
  BY DEF Answer
<1>4. /\ reader' = [reader EXCEPT ![r] = h] /\ answer' = [answer EXCEPT ![r] = a]
      /\ UNCHANGED <<member, met>>
  BY DEF Returns
<1> HIDE DEF a, h
<1>5. /\ reader'[r] = h /\ answer'[r] = a
      /\ \A q \in Readers \ {r} : reader'[q] = reader[q] /\ answer'[q] = answer[q]
  BY <1>4 DEF ReadsInv
<1>6. reader' \in [Readers -> Context] /\ DOMAIN answer' = Readers
  BY <1>2, <1>4 DEF ReadsInv
<1>7. ReadsTypeOK'
  BY <1>1, <1>2, <1>3, <1>4, <1>5 DEF ReadsInv, ReadsTypeOK, Context
<1>8. Due(r)'
  BY <1>2, <1>3, <1>4, <1>5 DEF Due, Has
<1>9. ASSUME NEW q \in Readers
      PROVE  (TeamMet(q) /\ TargetDue(q) /\ (answer[q] # None => Due(q)))'
  <2>1. CASE q = r
    BY <1>2, <1>5, <1>8, <2>1 DEF TeamMet, TargetDue
  <2>2. CASE q # r
    <3>1. reader'[q] = reader[q] /\ answer'[q] = answer[q]
      BY <1>5, <2>2
    <3> QED
      BY <1>4, <3>1 DEF ReadsInv, TeamMet, TargetDue, Due, Has, InTeam
  <2> QED
    BY <2>1, <2>2
<1> QED
  BY <1>6, <1>7, <1>9 DEF ReadsInv

(* The fixed routes *)
LEMMA RoutesKeep ==
    ASSUME ReadsInv, NEW r \in Readers,
           \/ MyAttendance(r) \/ TeamAttendance(r) \/ EmployeeAttendance(r)
           \/ LeaveRequests(r) \/ PendingTeamLeave(r) \/ AllEmployees(r)
           \/ \E d \in Teams : Members(r, d)
           \/ \E e \in Staff : Profile(r, e)
    PROVE  ReadsInv'
<1>1. TeamMet(r) /\ TargetDue(r)
  BY DEF ReadsInv
<1>2. reader[r].step \in {"resolved", "records"} /\ reader[r].actor \in Staff
  BY <1>1 DEF MyAttendance, TeamAttendance, EmployeeAttendance, LeaveRequests,
              PendingTeamLeave, AllEmployees, Members, Profile, TeamMet
<1>3. \A d : InTeam(d) \subseteq Staff
  BY DEF InTeam
<1>4. InTeam(reader[r].team) \subseteq met[r]
  BY <1>1, <1>2 DEF TeamMet
<1>5. {"attendance", "leave", "employees"} \subseteq Tables
  BY DEF Tables
<1>6. CASE MyAttendance(r)
  BY <1>2, <1>5, <1>6, ReturnsKeeps DEF MyAttendance
<1>7. CASE TeamAttendance(r)
  BY <1>2, <1>3, <1>4, <1>5, <1>7, ReturnsKeeps DEF TeamAttendance
<1>8. CASE EmployeeAttendance(r)
  BY <1>1, <1>2, <1>5, <1>8, ReturnsKeeps DEF EmployeeAttendance, TargetDue
<1>9. CASE LeaveRequests(r)
  BY <1>2, <1>5, <1>9, ReturnsKeeps DEF LeaveRequests
<1>10. CASE AllEmployees(r)
  BY <1>2, <1>5, <1>10, ReturnsKeeps DEF AllEmployees
<1>11. ASSUME NEW d \in Teams, Members(r, d) PROVE ReadsInv'
  BY <1>2, <1>3, <1>4, <1>5, <1>11, ReturnsKeeps DEF Members
<1>12. ASSUME NEW e \in Staff, Profile(r, e) PROVE ReadsInv'
  <2>1. \/ e = reader[r].actor \/ e \in met[r]
        \/ Has(r, "employee.profile.read.any")
    BY <1>4, <1>12 DEF Profile
  <2> QED
    BY <1>2, <1>5, <1>12, <2>1, ReturnsKeeps DEF Profile
<1>13. CASE PendingTeamLeave(r)
  <2>1. PICK rows \in SUBSET (InTeam(reader[r].team) \ {reader[r].actor}) :
            Returns(r, "leave", rows, None)
    BY <1>13 DEF PendingTeamLeave
  <2> QED
    BY <1>2, <1>3, <1>4, <1>5, <1>13, <2>1, ReturnsKeeps DEF PendingTeamLeave
<1> QED
  BY <1>6, <1>7, <1>8, <1>9, <1>10, <1>11, <1>12, <1>13

(* The dynamic query engine: the scope it derives is no wider than what    *)
(* the routes would show, and holds a query for one's own rows.            *)
LEMMA QueryKeeps ==
    ASSUME ReadsInv, NEW r \in Readers, NEW table \in Tables, NEW own \in BOOLEAN,
           NEW total \in BOOLEAN, Query(r, table, own, total)
    PROVE  ReadsInv'
<1> DEFINE query == [own |-> own, total |-> total]
<1>1. PICK scope \in QueryScope(r, table, own) :
        \E rows \in IF own THEN {scope \cap {reader[r].actor}} ELSE SUBSET scope :
            Returns(r, table, rows, query)
  BY DEF Query
<1>2. PICK rows \in IF own THEN {scope \cap {reader[r].actor}} ELSE SUBSET scope :
        Returns(r, table, rows, query)
  BY <1>1
<1>3. reader[r].step = "resolved" /\ (total => SelfOnly(r, table, own))
  BY DEF Query
<1>4. reader[r].actor \in Staff /\ InTeam(reader[r].team) \subseteq met[r]
      /\ InTeam(reader[r].team) \subseteq Staff
  BY <1>3 DEF ReadsInv, TeamMet, InTeam
<1>9. query \in Asked \cup {None} /\ query.own = own /\ query.total = total
  BY DEF Asked
<1> HIDE DEF query
<1>5. rows \subseteq scope /\ (own => rows = scope \cap {reader[r].actor})
  BY <1>2
<1>6. CASE table = "attendance"
  <2>1. scope \in AttendanceScope(r, own)
    BY <1>1, <1>6 DEF QueryScope
  <2>2. CASE OwnOnly(r, own)
    <3>1. scope = {reader[r].actor} /\ Has(r, "attendance.read.self")
      BY <2>1, <2>2 DEF AttendanceScope, OwnOnly
    <3> QED
      BY <1>2, <1>3, <1>4, <1>5, <1>6, <1>9, <3>1, ReturnsKeeps
  <2>3. CASE ~OwnOnly(r, own)
    <3>1. scope = InTeam(reader[r].team) /\ Has(r, "attendance.read.team")
      BY <2>1, <2>3 DEF AttendanceScope
    <3>2. ~total
      BY <1>3, <1>6, <2>3 DEF SelfOnly
    <3>3. ~(own /\ Has(r, "attendance.read.self"))
      BY <2>3 DEF OwnOnly
    <3> QED
      BY <1>2, <1>3, <1>4, <1>5, <1>6, <1>9, <3>1, <3>2, <3>3, ReturnsKeeps
  <2> QED
    BY <2>2, <2>3
<1>7. CASE table = "leave"
  <2>1. scope = {reader[r].actor} /\ Has(r, "leave.read.self")
    BY <1>1, <1>7 DEF QueryScope
  <2> QED
    BY <1>2, <1>3, <1>4, <1>5, <1>7, <1>9, <2>1, ReturnsKeeps
<1>8. CASE table = "employees"
  <2>1. scope = Staff /\ Has(r, "employee.profile.read.any")
    BY <1>1, <1>8 DEF QueryScope
  <2>2. ~total
    BY <1>3, <1>8 DEF SelfOnly
  <2> QED
    BY <1>2, <1>3, <1>4, <1>5, <1>8, <1>9, <2>1, <2>2, ReturnsKeeps
<1> QED
  BY <1>6, <1>7, <1>8 DEF Tables

(* Whoever comes into the department of a call under way has been met. *)
LEMMA MovesKeeps ==
    ASSUME ReadsInv, NEW e \in Staff, NEW d \in Teams \cup {None}, Moves(e, d)
    PROVE  ReadsInv'
<1>1. /\ member' = [member EXCEPT ![e] = d] /\ UNCHANGED <<reader, answer>>
      /\ met' = [r \in Readers |->
             IF d # None /\ d = reader[r].team /\ reader[r].step # "done"
             THEN met[r] \cup {e} ELSE met[r]]
  BY DEF Moves
<1>2. \A r \in Readers : /\ met[r] \subseteq met'[r]
                         /\ reader[r].step = "done" => met'[r] = met[r]
  BY <1>1
<1>3. ReadsTypeOK'
  <2>1. met' \in [Readers -> SUBSET Staff]
    BY <1>1 DEF ReadsInv, ReadsTypeOK
  <2>2. member' \in [Staff -> Teams \cup {None}]
    BY <1>1 DEF ReadsInv, ReadsTypeOK
  <2> QED
    BY <1>1, <2>1, <2>2 DEF ReadsInv, ReadsTypeOK
<1>4. ASSUME NEW r \in Readers PROVE TeamMet(r)'
  <2> SUFFICES ASSUME reader[r].step \in {"resolved", "records"}
               PROVE  reader[r].actor \in Staff /\ (InTeam(reader[r].team) \subseteq met[r])'
    BY <1>1 DEF TeamMet
  <2>1. reader[r].actor \in Staff /\ InTeam(reader[r].team) \subseteq met[r]
    BY DEF ReadsInv, TeamMet
  <2>2. \A f \in Staff \ {e} : member'[f] = member[f]
    BY <1>1 DEF ReadsInv, ReadsTypeOK
  <2>3. member'[e] = d
    BY <1>1 DEF ReadsInv, ReadsTypeOK
  <2>4. ASSUME NEW f \in Staff, member'[f] = reader[r].team, reader[r].team # None
        PROVE  f \in met'[r]
    <3>1. CASE f = e
      BY <1>1, <2>3, <2>4, <3>1
    <3>2. CASE f # e
      BY <1>2, <2>1, <2>2, <2>4, <3>2 DEF InTeam
    <3> QED
      BY <3>1, <3>2
  <2> QED
    BY <1>1, <2>1, <2>4 DEF InTeam
<1>5. \A r \in Readers : TargetDue(r)'
  BY <1>1, <1>2 DEF ReadsInv, TargetDue, Has
<1>6. \A r \in Readers : answer'[r] # None => Due(r)'
  BY <1>1, <1>2 DEF ReadsInv, Due, Has
<1> QED
  BY <1>1, <1>3, <1>4, <1>5, <1>6 DEF ReadsInv

(* Every step keeps the invariant. *)
LEMMA ReadsInvNext ==
    ASSUME ReadsInv, [ReadsNext]_readsVars
    PROVE  ReadsInv'
<1>1. ASSUME NEW r \in Readers,
             \/ \E e \in Staff, rights \in SUBSET Rights : Resolves(r, e, rights)
             \/ \E e \in Staff : FindsEmployee(r, e)
             \/ Refused(r)
      PROVE  ReadsInv'
  BY <1>1, ResolvesKeeps, FindsEmployeeKeeps, RefusedKeeps
<1>2. ASSUME NEW r \in Readers,
             \/ MyAttendance(r) \/ TeamAttendance(r) \/ EmployeeAttendance(r)
             \/ LeaveRequests(r) \/ PendingTeamLeave(r) \/ AllEmployees(r)
             \/ \E d \in Teams : Members(r, d)
             \/ \E e \in Staff : Profile(r, e)
      PROVE  ReadsInv'
  BY <1>2, RoutesKeep
<1>3. ASSUME NEW r \in Readers, NEW table \in Tables, NEW own \in BOOLEAN,
             NEW total \in BOOLEAN, Query(r, table, own, total)
      PROVE  ReadsInv'
  BY <1>3, QueryKeeps
<1>4. ASSUME NEW e \in Staff, NEW d \in Teams \cup {None}, Moves(e, d) PROVE ReadsInv'
  BY <1>4, MovesKeeps
<1>5. CASE UNCHANGED readsVars
  BY <1>5 DEF readsVars, ReadsInv, ReadsTypeOK, TeamMet, TargetDue, Due, Has, InTeam
<1> QED
  BY <1>1, <1>2, <1>3, <1>4, <1>5 DEF ReadsNext

(* Departments, contexts and answers stay within their types. *)
THEOREM ReadsTypeCorrect == ReadsSpec => []ReadsTypeOK
<1>1. ReadsInv => ReadsTypeOK
  BY DEF ReadsInv
<1> QED
  BY ReadsInvInit, ReadsInvNext, <1>1, PTL DEF ReadsSpec

(* hrm-server/README.md 45-48: whatever route or query a call takes, and   *)
(* wherever employees are moved meanwhile, it shows nobody's rows that its *)
(* rights do not reach, and one's own when they were asked for.            *)
THEOREM ReadsAreDue == ReadsSpec => []AnswersAreDue
<1>1. ReadsInv => AnswersAreDue
  BY DEF ReadsInv, Due, AnswersAreDue
<1> QED
  BY ReadsInvInit, ReadsInvNext, <1>1, PTL DEF ReadsSpec

-----------------------------------------------------------------------------
(* The composition: the part that the initial state picks behaves as       *)
(* specified by itself.                                                    *)

LEMMA PartsBegin ==
    ASSUME PartsInit
    PROVE  /\ OAuthInit /\ ConfirmationInit /\ AccountsInit /\ AgentInit
           /\ part = "work" => WorkInit
           /\ part = "directory" => DirectoryInit
           /\ part = "reads" => ReadsInit
BY DEF PartsInit

LEMMA PartsStep ==
    ASSUME [PartsNext]_<<part, oauthVars, confirmationVars, accountVars,
                         workVars, agentVars, directoryVars, readsVars>>
    PROVE  /\ part' = part
           /\ part = "oauth" => [OAuthNext]_oauthVars
           /\ part = "confirmations" => [ConfirmationNext]_confirmationVars
           /\ part = "accounts" => [AccountsNext]_accountVars
           /\ part = "work" => [WorkNext]_workVars
           /\ part = "agents" => [AgentNext]_agentVars
           /\ part = "directory" => [DirectoryNext]_directoryVars
           /\ part = "reads" => [ReadsNext]_readsVars
BY DEF PartsNext

(* Whichever of the small systems runs, it is the one its module specifies, *)
(* so what the theorems say of each holds in the composition.               *)
THEOREM PartsBehaveAlone ==
    PartsSpec => /\ part = "oauth" => OAuthSpec
                 /\ part = "confirmations" => ConfirmationSpec
                 /\ part = "accounts" => AccountsSpec
                 /\ part = "work" => WorkSpec
                 /\ part = "agents" => AgentSpec
                 /\ part = "directory" => DirectorySpec
                 /\ part = "reads" => ReadsSpec
<1> DEFINE partsVars == <<part, oauthVars, confirmationVars, accountVars,
                           workVars, agentVars, directoryVars, readsVars>>
<1>1. PartsSpec => (part = "oauth" => OAuthSpec)
  <2>1. PartsInit /\ part = "oauth" => OAuthInit
    BY PartsBegin
  <2>2. part = "oauth" /\ [PartsNext]_partsVars
        => (part = "oauth")' /\ [OAuthNext]_oauthVars
    BY PartsStep
  <2> QED
    BY <2>1, <2>2, PTL DEF PartsSpec, OAuthSpec
<1>2. PartsSpec => (part = "confirmations" => ConfirmationSpec)
  <2>1. PartsInit /\ part = "confirmations" => ConfirmationInit
    BY PartsBegin
  <2>2. part = "confirmations" /\ [PartsNext]_partsVars
        => (part = "confirmations")' /\ [ConfirmationNext]_confirmationVars
    BY PartsStep
  <2> QED
    BY <2>1, <2>2, PTL DEF PartsSpec, ConfirmationSpec
<1>3. PartsSpec => (part = "accounts" => AccountsSpec)
  <2>1. PartsInit /\ part = "accounts" => AccountsInit
    BY PartsBegin
  <2>2. part = "accounts" /\ [PartsNext]_partsVars
        => (part = "accounts")' /\ [AccountsNext]_accountVars
    BY PartsStep
  <2> QED
    BY <2>1, <2>2, PTL DEF PartsSpec, AccountsSpec
<1>4. PartsSpec => (part = "work" => WorkSpec)
  <2>1. PartsInit /\ part = "work" => WorkInit
    BY PartsBegin
  <2>2. part = "work" /\ [PartsNext]_partsVars
        => (part = "work")' /\ [WorkNext]_workVars
    BY PartsStep
  <2> QED
    BY <2>1, <2>2, PTL DEF PartsSpec, WorkSpec
<1>5. PartsSpec => (part = "agents" => AgentSpec)
  <2>1. PartsInit /\ part = "agents" => AgentInit
    BY PartsBegin
  <2>2. part = "agents" /\ [PartsNext]_partsVars
        => (part = "agents")' /\ [AgentNext]_agentVars
    BY PartsStep
  <2> QED
    BY <2>1, <2>2, PTL DEF PartsSpec, AgentSpec
<1>6. PartsSpec => (part = "directory" => DirectorySpec)
  <2>1. PartsInit /\ part = "directory" => DirectoryInit
    BY PartsBegin
  <2>2. part = "directory" /\ [PartsNext]_partsVars
        => (part = "directory")' /\ [DirectoryNext]_directoryVars
    BY PartsStep
  <2> QED
    BY <2>1, <2>2, PTL DEF PartsSpec, DirectorySpec
<1>7. PartsSpec => (part = "reads" => ReadsSpec)
  <2>1. PartsInit /\ part = "reads" => ReadsInit
    BY PartsBegin
  <2>2. part = "reads" /\ [PartsNext]_partsVars
        => (part = "reads")' /\ [ReadsNext]_readsVars
    BY PartsStep
  <2> QED
    BY <2>1, <2>2, PTL DEF PartsSpec, ReadsSpec
<1> QED
  BY <1>1, <1>2, <1>3, <1>4, <1>5, <1>6, <1>7

(* The rows and sessions of whichever part runs stay within their types.   *)
THEOREM PartsTypeCorrect == PartsSpec => []PartsTypeOK
<1> DEFINE partsVars == <<part, oauthVars, confirmationVars, accountVars,
                          workVars, agentVars, directoryVars, readsVars>>
<1>1. PartsSpec => [](part = "oauth" => OAuthTypeOK)
  <2>1. ~(part = "oauth") /\ [PartsNext]_partsVars => ~(part = "oauth")'
    BY PartsStep
  <2>2. PartsSpec => (part = "oauth" => OAuthSpec)
    BY PartsBehaveAlone
  <2> QED
    BY <2>1, <2>2, OAuthTypeCorrect, PTL DEF PartsSpec
<1>2. PartsSpec => [](part = "confirmations" => ConfirmationTypeOK)
  <2>1. ~(part = "confirmations") /\ [PartsNext]_partsVars => ~(part = "confirmations")'
    BY PartsStep
  <2>2. PartsSpec => (part = "confirmations" => ConfirmationSpec)
    BY PartsBehaveAlone
  <2> QED
    BY <2>1, <2>2, ConfirmationTypeCorrect, PTL DEF PartsSpec
<1>3. PartsSpec => [](part = "accounts" => AccountsTypeOK)
  <2>1. ~(part = "accounts") /\ [PartsNext]_partsVars => ~(part = "accounts")'
    BY PartsStep
  <2>2. PartsSpec => (part = "accounts" => AccountsSpec)
    BY PartsBehaveAlone
  <2> QED
    BY <2>1, <2>2, AccountsTypeCorrect, PTL DEF PartsSpec
<1>4. PartsSpec => [](part = "work" => WorkTypeOK)
  <2>1. ~(part = "work") /\ [PartsNext]_partsVars => ~(part = "work")'
    BY PartsStep
  <2>2. PartsSpec => (part = "work" => WorkSpec)
    BY PartsBehaveAlone
  <2> QED
    BY <2>1, <2>2, WorkTypeCorrect, PTL DEF PartsSpec
<1>5. PartsSpec => [](part = "agents" => AgentTypeOK)
  <2>1. ~(part = "agents") /\ [PartsNext]_partsVars => ~(part = "agents")'
    BY PartsStep
  <2>2. PartsSpec => (part = "agents" => AgentSpec)
    BY PartsBehaveAlone
  <2> QED
    BY <2>1, <2>2, AgentTypeCorrect, PTL DEF PartsSpec
<1>6. PartsSpec => [](part = "directory" => DirectoryTypeOK)
  <2>1. ~(part = "directory") /\ [PartsNext]_partsVars => ~(part = "directory")'
    BY PartsStep
  <2>2. PartsSpec => (part = "directory" => DirectorySpec)
    BY PartsBehaveAlone
  <2> QED
    BY <2>1, <2>2, DirectoryTypeCorrect, PTL DEF PartsSpec
<1>7. PartsSpec => [](part = "reads" => ReadsTypeOK)
  <2>1. ~(part = "reads") /\ [PartsNext]_partsVars => ~(part = "reads")'
    BY PartsStep
  <2>2. PartsSpec => (part = "reads" => ReadsSpec)
    BY PartsBehaveAlone
  <2> QED
    BY <2>1, <2>2, ReadsTypeCorrect, PTL DEF PartsSpec
<1> QED
  BY <1>1, <1>2, <1>3, <1>4, <1>5, <1>6, <1>7, PTL DEF PartsTypeOK
=============================================================================
